---- MODULE Spec2Model ----
(***************************************************************************)
(* The splitter orchestration engine: playlist submissions, the download   *)
(* and Demucs worker pools, startup reconciliation, the progress           *)
(* broadcaster and the Spotify access-token cache.                         *)
(***************************************************************************)
EXTENDS Integers, Sequences, FiniteSets, TLC

(* ---------------------------------------------------------------------- *)
(* Bounds of the model                                                     *)
(* ---------------------------------------------------------------------- *)
\* number of download workers that are run (the pool has numWorkers = 8)
MaxWorkers == 2
\* number of playlist submissions accepted in one process lifetime
MaxSubmits == 1
\* number of "downloading"/"processing" lines a child prints per job
MaxLines == 1
\* number of SSE clients that connect
MaxSubs == 2
\* slots of the producer channel that are modelled in the runs with SSE
\* clients (the channel has 100)
MaxBuffered == 2
\* slots of the producer channel in the runs without SSE clients: the run
\* goroutine only drains the channel there, so the number of events that
\* wait in it shows in no other variable
MaxDrained == 1
\* events published by the producers of the broadcaster-only runs
MaxPublish == 3
\* events an SSE client of the engine reads before it stops reading
MaxRecv == 2
\* goroutines that ask for an access token
MaxCallers == 2
\* the clock stops at MaxClock minutes
MaxClock == 56
\* calls of ensureDockerContainer made by one goroutine
MaxCalls == 3
\* pages the catalog splits a playlist into
MaxPages == 3
\* stderr updates the separator prints in one invocation
MaxUpdates == 8
\* slots of a job queue that are modelled in the runs that fill it (the
\* queues have QueueCap = 1000)
MaxQueued == 1

(* ---------------------------------------------------------------------- *)
(* Program constants                                                       *)
(* ---------------------------------------------------------------------- *)
numDemucsWorkers == 1
QueueCap == 1000
\* the refresh skew of getAccessToken, in minutes
SkewMinutes == 5

\* the number of models the progress of a separation is averaged over
numModels == 4

Tracks == {"T1", "T2"}
Statuses == {"pending", "in_progress", "completed", "failed"}
DiskStates == {"absent", "empty", "full"}

\* playlists the catalog can resolve: playlist id |-> ordered track list
Playlists ==
  [P1 |-> <<"T1">>, P2 |-> <<"T1", "T2">>, P3 |-> <<"T1", "T1">>]
PlaylistIDs == DOMAIN Playlists

Workers == 1..MaxWorkers
DemucsWorkers == 1..numDemucsWorkers
Subs == 1..MaxSubs
Callers == 1..MaxCallers

VARIABLES
  tracks,          \* table tracks: track id -> row
  playlist_tracks, \* table playlist_tracks: set of <<playlist id, track id>>
  disk,            \* songs/<id>/base.mp3: "absent", "empty" or "full"
  mainPc,          \* position of main()
  pendingList,     \* the slice main() is iterating during resync
  downloadQueue,   \* chan *DownloadJob
  demucsQueue,     \* chan *DemucsJob
  dw,              \* the DownloadWorker goroutines
  mw,              \* the DemucsWorker goroutines
  late,            \* lines held by progress readers that outlived cmd.Wait
  dockerInit,      \* dockerInitOnce / dockerInitErr
  dockerRuns,      \* history: executions of startDockerContainer
  inv,             \* goroutines inside ensureDockerContainer
  events,          \* ProgressBroadcaster.events
  run,             \* the ProgressBroadcaster.run goroutine
  clients,         \* ProgressBroadcaster.clients
  sub,             \* the ProgressStreamHandler goroutines
  busLog,          \* history: every event in the order it entered events
  published,       \* history: the <<track, type, status>> that entered events
  connectsLeft,    \* SSE connections still accepted
  recvLimit,       \* events an SSE client reads before it stops reading
  catalog,         \* playlist ids the catalog API resolves
  submitsLeft,     \* submissions still accepted
  lastStatus,      \* status and message of the last setup response
  inserts,         \* history: rows inserted per track
  setup,           \* the SetupPlaylistHandler goroutines
  resynced,        \* history: tracks main() put on the Demucs queue
  accessToken,     \* Server.accessToken (0 is the empty string)
  tokenExpiry,     \* Server.tokenExpiry
  tokenMutex,      \* Server.tokenMutex: the caller holding the write lock
  now,             \* time.Now(), in minutes
  issued,          \* tokens issued by the credential endpoint so far
  upstreamCalls,   \* history: requests made to the credential endpoint
  tk,              \* the goroutines asking for a token
  pages,           \* the pages the catalog answers one playlist with
  resolvePc,       \* position of GetPlaylistMetadataWithToken
  metadata,        \* its metadata: TotalTracks and Tracks
  nextURL,         \* its nextURL: number of the page to fetch, 0 for ""
  resolveErr,      \* the error it returns
  currentModel,    \* ProcessTrackWithDemucs: currentModel
  lastProgress,    \* ProcessTrackWithDemucs: lastProgress
  sepOut,          \* history: Progress of the last "processing" event, times 4
  sepLines,        \* history: stderr updates read so far
  sepRestarts,     \* history: restarts from 100 to 0 in the updates so far
  sepRegular,      \* history: the updates so far are those of regular passes
  queueSlots,      \* cap(downloadQueue) and cap(demucsQueue)
  eventSlots,      \* cap(b.events)
  skipped          \* history: tracks the pending-download resync skipped

storeVars == <<tracks, playlist_tracks, disk>>
mainVars == <<mainPc, pendingList, resynced>>
queueVars == <<downloadQueue, demucsQueue>>
dockerVars == <<dockerInit, dockerRuns, inv>>
workerVars == <<dw, mw, late, dockerVars>>
busVars == <<events, run, clients, sub, busLog, published, connectsLeft,
            recvLimit>>
httpVars == <<catalog, submitsLeft, lastStatus, inserts, setup>>
tokenVars == <<accessToken, tokenExpiry, tokenMutex, now, issued,
               upstreamCalls, tk>>

resolveVars == <<pages, resolvePc, metadata, nextURL, resolveErr>>
sepVars == <<currentModel, lastProgress, sepOut, sepLines, sepRestarts,
             sepRegular>>
callVars == <<resolveVars, sepVars, queueSlots, eventSlots, skipped>>

vars == <<storeVars, mainVars, queueVars, workerVars, busVars, httpVars,
          tokenVars, callVars>>

(* ---------------------------------------------------------------------- *)
(* Store                                                                   *)
(* ---------------------------------------------------------------------- *)
NoRow ==
  [known |-> FALSE, download_status |-> "none", error_message |-> "",
   demucs_status |-> "none", demucs_error_message |-> ""]

NewRow ==
  [known |-> TRUE, download_status |-> "pending", error_message |-> "",
   demucs_status |-> "pending", demucs_error_message |-> ""]

\* an UPDATE that sets the status columns of both stages
UpdateBothStatuses(tbl, trackID, status, errorMessage) ==
  IF tbl[trackID].known
    THEN [tbl EXCEPT ![trackID].download_status = status,
                     ![trackID].error_message = errorMessage,
                     ![trackID].demucs_status = status]
    ELSE tbl

\* UPDATE tracks SET download_status = ?, error_message = ? WHERE track_id = ?
UpdateDownloadStatus(tbl, trackID, status, errorMessage) ==
  IF tbl[trackID].known
    THEN [tbl EXCEPT ![trackID].download_status = status,
                     ![trackID].error_message = errorMessage]
    ELSE tbl

\* UPDATE tracks SET demucs_status = ?, demucs_error_message = ? WHERE ...
UpdateDemucsStatus(tbl, trackID, status, errorMessage) ==
  IF tbl[trackID].known
    THEN [tbl EXCEPT ![trackID].demucs_status = status,
                     ![trackID].demucs_error_message = errorMessage]
    ELSE tbl

Range(s) == {s[i] : i \in 1..Len(s)}

\* INSERT INTO tracks ... ON CONFLICT(track_id) DO NOTHING
SavePlaylistTracks(tbl, trks) ==
  [t \in Tracks |->
     IF t \in Range(trks) /\ ~tbl[t].known THEN NewRow ELSE tbl[t]]

\* os.Stat("songs/" + trackID + "/base.mp3") returns no error
checkFileExists(trackID) == disk[trackID] # "absent"

VerifyRow(row, exists) ==
  IF ~row.known THEN row
  ELSE IF exists
    THEN IF row.download_status # "completed"
           THEN [row EXCEPT !.download_status = "completed",
                            !.error_message = ""]
           ELSE row
    ELSE IF row.download_status = "in_progress"
           THEN [row EXCEPT !.download_status = "pending",
                            !.error_message = ""]
           ELSE row

\* The loop issues each UPDATE through db.Exec while the rows of its SELECT
\* are still open on another pooled connection, and discards the error that
\* Exec returns: applied is the set of rows whose UPDATE was committed
\* (none while the reader's lock is held on a rollback-journal database).
VerifyDownloadStatus(tbl, applied) ==
  [t \in Tracks |->
     IF t \in applied THEN VerifyRow(tbl[t], checkFileExists(t)) ELSE tbl[t]]

\* Server.verifyDownloadStatus of the single-file server: the file counts
\* only with info.Size() > 0, and the UPDATE sets download_status alone
verifyRow(row, hasContent) ==
  IF ~row.known THEN row
  ELSE IF hasContent
    THEN IF row.download_status # "completed"
           THEN [row EXCEPT !.download_status = "completed"]
           ELSE row
    ELSE IF row.download_status = "in_progress"
           THEN [row EXCEPT !.download_status = "pending"]
           ELSE row

\* as in VerifyDownloadStatus, s.db.Exec runs inside the open rows loop and
\* its error is discarded
verifyDownloadStatus(tbl, applied) ==
  [t \in Tracks |->
     IF t \in applied THEN verifyRow(tbl[t], disk[t] = "full") ELSE tbl[t]]

\* rows are returned in table order; the model fixes it as T1 before T2
TableOrder == <<"T1", "T2">>

GetPendingDownloadJobs(tbl) ==
  LET pend(t) == tbl[t].known /\ tbl[t].download_status = "pending"
  IN SelectSeq(TableOrder, pend)

\* the rows of a query that succeeded; a row whose rows.Scan returns an
\* error is left out (continue): scanned is the set of rows that Scan read
GetPendingDemucsJobs(tbl, scanned) ==
  LET pend(t) == /\ tbl[t].known
                 /\ tbl[t].download_status = "completed"
                 /\ tbl[t].demucs_status = "pending"
                 /\ t \in scanned
  IN SelectSeq(TableOrder, pend)

(* ---------------------------------------------------------------------- *)
(* Progress events                                                         *)
(* ---------------------------------------------------------------------- *)
\* models.ProgressEvent.  Progress is a float64 percentage; an event keeps it
\* in units of 1/numModels of a percentage point, in which every value the
\* program computes is an integer (100 is kept as 100 * numModels).
ProgressEvent(trackID, type, status, units, error) ==
  [track |-> trackID, type |-> type, status |-> status,
   progress |-> units, error |-> error]

\* an event with a whole percentage
Event(trackID, type, status, progress, error) ==
  ProgressEvent(trackID, type, status, progress * numModels, error)

\* b.events <- event
\* busLog is kept only in the runs that observe the bus (NotRecorded
\* otherwise)
NotRecorded == <<[track |-> "", type |-> "", status |-> "not recorded",
                  progress |-> 0, error |-> ""]>>

SendEvent(ev) ==
  /\ Len(events) < eventSlots
  /\ events' = Append(events, ev)
  /\ busLog' = IF busLog = NotRecorded THEN busLog ELSE Append(busLog, ev)
  /\ published' = published \cup {<<ev.track, ev.type, ev.status>>}

(* ---------------------------------------------------------------------- *)
(* main(): reconciliation and resync, run before the workers start         *)
(* ---------------------------------------------------------------------- *)
\* database.VerifyDownloadStatus(checkFileExists)
MainVerify ==
  /\ mainPc = "verify"
  /\ \E applied \in SUBSET Tracks :
       tracks' = VerifyDownloadStatus(tracks, applied)
  /\ mainPc' = "loadDownloads"
  /\ UNCHANGED <<playlist_tracks, disk, pendingList, resynced, queueVars,
                 workerVars, busVars, httpVars, tokenVars,
                 callVars>>

\* s.verifyDownloadStatus(), the reconciliation of the single-file server
ServerVerify ==
  /\ mainPc = "verify"
  /\ \E applied \in SUBSET Tracks :
       tracks' = verifyDownloadStatus(tracks, applied)
  /\ mainPc' = "loadDownloads"
  /\ UNCHANGED <<playlist_tracks, disk, pendingList, resynced, queueVars,
                 workerVars, busVars, httpVars, tokenVars,
                 callVars>>

\* database.GetPendingDownloadJobs() and, when it returned rows,
\* core.GetAccessToken(config).  A query that returns an error is logged and
\* nothing is asked of the credential endpoint; so is a token request that
\* fails.  In both cases no download job is resynced.
MainLoadPendingDownloads ==
  /\ mainPc = "loadDownloads"
  /\ \E queryOk \in BOOLEAN, tokenOk \in BOOLEAN :
       LET pendingDownloads == GetPendingDownloadJobs(tracks)
       IN /\ pendingList' = IF queryOk /\ tokenOk
                               THEN pendingDownloads ELSE <<>>
          /\ upstreamCalls' = IF queryOk /\ pendingDownloads # <<>>
                                THEN upstreamCalls + 1 ELSE upstreamCalls
          /\ mainPc' = "resyncDownloads"
  /\ UNCHANGED <<storeVars, resynced, queueVars, workerVars, busVars,
                 httpVars, accessToken, tokenExpiry, tokenMutex, now, issued,
                 tk,
                 callVars>>

\* MainGetTrackMetadata with a break in place of the continue: a resolution
\* failure ends the loop
MainGetTrackMetadataBreak ==
  /\ mainPc = "resyncDownloads"
  /\ pendingList # <<>>
  /\ \E resolved \in BOOLEAN :
       IF resolved
         THEN /\ mainPc' = "sendDownload"
              /\ UNCHANGED <<pendingList, skipped>>
         ELSE /\ pendingList' = <<>>
              /\ skipped' = skipped \cup {Head(pendingList)}
              /\ UNCHANGED mainPc
  /\ UNCHANGED <<storeVars, resynced, queueVars, workerVars, busVars,
                 httpVars, tokenVars,
                 resolveVars, sepVars, queueSlots, eventSlots>>

\* for _, trackID := range pendingDownloads: core.GetTrackMetadata(trackID,
\* token) for the track the loop is at.  A failure is logged and the loop
\* continues with the next track; after a success main() goes on to the send.
MainGetTrackMetadata ==
  /\ mainPc = "resyncDownloads"
  /\ pendingList # <<>>
  /\ \E resolved \in BOOLEAN :
       IF resolved
         THEN /\ mainPc' = "sendDownload"
              /\ UNCHANGED <<pendingList, skipped>>
         ELSE /\ pendingList' = Tail(pendingList)
              /\ skipped' = skipped \cup {Head(pendingList)}
              /\ UNCHANGED mainPc
  /\ UNCHANGED <<storeVars, resynced, queueVars, workerVars, busVars,
                 httpVars, tokenVars,
                 resolveVars, sepVars, queueSlots, eventSlots>>

\* downloadQueue <- &models.DownloadJob{Track: *track}: the send of the track
\* that was resolved, which waits while the channel is full
MainResyncDownload ==
  /\ mainPc = "sendDownload"
  /\ Len(downloadQueue) < queueSlots
  /\ downloadQueue' = Append(downloadQueue, Head(pendingList))
  /\ pendingList' = Tail(pendingList)
  /\ mainPc' = "resyncDownloads"
  /\ UNCHANGED <<storeVars, resynced, demucsQueue, workerVars,
                 busVars, httpVars, tokenVars,
                 callVars>>

\* database.GetPendingDemucsJobs(): a query that returns an error is logged
\* and the loop is skipped; a row that could not be scanned is not returned
MainLoadPendingDemucs ==
  /\ mainPc = "resyncDownloads"
  /\ pendingList = <<>>
  /\ \E queryOk \in BOOLEAN, scanned \in SUBSET Tracks :
       pendingList' = IF queryOk THEN GetPendingDemucsJobs(tracks, scanned)
                                 ELSE <<>>
  /\ mainPc' = "resyncDemucs"
  /\ UNCHANGED <<storeVars, resynced, queueVars, workerVars, busVars,
                 httpVars, tokenVars,
                 callVars>>

\* one iteration of: for _, track := range pendingDemucs
MainResyncDemucs ==
  /\ mainPc = "resyncDemucs"
  /\ pendingList # <<>>
  /\ Len(demucsQueue) < queueSlots
  /\ demucsQueue' = Append(demucsQueue, Head(pendingList))
  /\ resynced' = resynced \cup {Head(pendingList)}
  /\ pendingList' = Tail(pendingList)
  /\ UNCHANGED <<storeVars, mainPc, downloadQueue, workerVars, busVars,
                 httpVars, tokenVars,
                 callVars>>

\* go workerManager.DownloadWorker / DemucsWorker, http.ListenAndServe
MainStartWorkers ==
  /\ mainPc = "resyncDemucs"
  /\ pendingList = <<>>
  /\ mainPc' = "serving"
  /\ UNCHANGED <<storeVars, pendingList, resynced, queueVars, workerVars,
                 busVars, httpVars, tokenVars,
                 callVars>>

(* ---------------------------------------------------------------------- *)
(* POST /setup-playlist                                                    *)
(* ---------------------------------------------------------------------- *)
\* the handler goroutines: one per request that is being served
Requests == 1..MaxSubmits

\* what a request looks like: a POST with a JSON body, another method, or a
\* body that does not decode
SetupRequests == {"post", "not_post", "bad_body"}

\* how core.GetPlaylistMetadataWithToken and the os.MkdirAll loop end
ResolveOutcomes == {"ok", "playlist_err", "mkdir_err"}

\* the steps at which the transaction of SavePlaylistTracks can fail
StoreErrors == {"insert_err", "membership_err", "commit_err"}

Response(code, body) == [code |-> code, body |-> body]

IdleSetup == [pc |-> "idle", playlistID |-> "", todo |-> <<>>]

\* what no step of the handler touches
SetupUnchanged ==
  UNCHANGED <<disk, mainVars, demucsQueue, workerVars, busVars, catalog,
              submitsLeft, accessToken, tokenExpiry, tokenMutex, now, issued,
              tk,
              callVars>>

\* http.Error(w, body, code); return
SetupRefused(h, code, body) ==
  /\ lastStatus' = Response(code, body)
  /\ setup' = [setup EXCEPT ![h] = IdleSetup]

\* SetupPlaylistHandler that looks at the request only after the token and
\* the playlist were fetched
SetupPlaylistHandlerLateValidation(h, playlistID, request) ==
  /\ mainPc = "serving"
  /\ submitsLeft > 0
  /\ setup[h].pc = "idle"
  /\ \A g \in Requests : g < h => setup[g].pc # "idle"
  /\ submitsLeft' = submitsLeft - 1
  /\ setup' = [setup EXCEPT ![h] =
        [pc |-> "token",
         playlistID |-> IF request = "post" THEN playlistID ELSE "",
         todo |-> <<>>]]
  /\ UNCHANGED <<storeVars, mainVars, queueVars, workerVars, busVars,
                 catalog, lastStatus, inserts, tokenVars,
                 callVars>>

\* a request arrives and gets a handler goroutine (the first free one): the
\* method check, the decoding of the body and the playlist_id check
SetupPlaylistHandler(h, playlistID, request) ==
  /\ mainPc = "serving"
  /\ submitsLeft > 0
  /\ setup[h].pc = "idle"
  /\ \A g \in Requests : g < h => setup[g].pc # "idle"
  /\ submitsLeft' = submitsLeft - 1
  /\ IF request = "not_post"
       THEN SetupRefused(h, 405, "Method not allowed")
     ELSE IF request = "bad_body"
       THEN SetupRefused(h, 400, "Invalid request body")
     ELSE IF playlistID = ""
       THEN SetupRefused(h, 400, "playlist_id is required")
     ELSE /\ setup' = [setup EXCEPT ![h] =
                 [pc |-> "token", playlistID |-> playlistID, todo |-> <<>>]]
          /\ UNCHANGED lastStatus
  /\ UNCHANGED <<storeVars, mainVars, queueVars, workerVars, busVars,
                 catalog, inserts, tokenVars,
                 callVars>>

\* token, err := core.GetAccessToken(h.SpotifyConfig): one request to the
\* credential endpoint
SetupGetAccessToken(h, ok) ==
  /\ setup[h].pc = "token"
  /\ upstreamCalls' = upstreamCalls + 1
  /\ IF ok
       THEN /\ setup' = [setup EXCEPT ![h].pc = "playlist"]
            /\ UNCHANGED lastStatus
       ELSE SetupRefused(h, 500, "Failed to get Spotify access token")
  /\ UNCHANGED <<tracks, playlist_tracks, downloadQueue, inserts>>
  /\ SetupUnchanged

\* metadata, err := core.GetPlaylistMetadataWithToken(...), then the
\* os.MkdirAll loop over metadata.Tracks
SetupGetPlaylistMetadata(h, outcome) ==
  /\ setup[h].pc = "playlist"
  /\ IF outcome = "playlist_err" \/ setup[h].playlistID \notin catalog
       THEN SetupRefused(h, 500, "Failed to fetch playlist")
     ELSE IF outcome = "mkdir_err"
       THEN SetupRefused(h, 500, "Failed to create directory")
     ELSE /\ setup' = [setup EXCEPT ![h].pc = "save"]
          /\ UNCHANGED lastStatus
  /\ UNCHANGED <<tracks, playlist_tracks, downloadQueue, inserts,
                 upstreamCalls>>
  /\ SetupUnchanged

\* the rows and memberships of the playlist are committed
SetupSaved(h) ==
  LET trks == Playlists[setup[h].playlistID]
  IN /\ tracks' = SavePlaylistTracks(tracks, trks)
     /\ playlist_tracks' = playlist_tracks \cup
           {<<setup[h].playlistID, t>> : t \in Range(trks)}
     /\ inserts' = [t \in Tracks |->
           IF t \in Range(trks) /\ ~tracks[t].known
             THEN inserts[t] + 1 ELSE inserts[t]]
     /\ setup' = [setup EXCEPT ![h].pc = "enqueue", ![h].todo = trks]
     /\ UNCHANGED lastStatus

\* SetupSavePlaylistTracks that answers 500 on a store error and goes on to
\* the enqueue loop
SetupSavePlaylistTracksNoReturn(h, outcome) ==
  /\ setup[h].pc = "save"
  /\ IF outcome \in StoreErrors
       THEN /\ lastStatus' = Response(500, "Database error")
            /\ setup' = [setup EXCEPT ![h].pc = "enqueue",
                           ![h].todo = Playlists[setup[h].playlistID]]
            /\ UNCHANGED <<tracks, playlist_tracks, inserts>>
       ELSE SetupSaved(h)
  /\ UNCHANGED <<downloadQueue, upstreamCalls>>
  /\ SetupUnchanged

\* SetupSavePlaylistTracks over a transaction that does not roll back: the
\* track rows inserted before the failure stay
SetupSavePlaylistTracksNoRollback(h, outcome) ==
  /\ setup[h].pc = "save"
  /\ IF outcome = "insert_err"
       THEN /\ SetupRefused(h, 500, "Database error")
            /\ UNCHANGED <<tracks, playlist_tracks, inserts>>
     ELSE IF outcome \in StoreErrors
       THEN /\ SetupRefused(h, 500, "Database error")
            /\ tracks' = SavePlaylistTracks(tracks,
                            Playlists[setup[h].playlistID])
            /\ UNCHANGED <<playlist_tracks, inserts>>
     ELSE SetupSaved(h)
  /\ UNCHANGED <<downloadQueue, upstreamCalls>>
  /\ SetupUnchanged

\* err = h.DB.SavePlaylistTracks(req.PlaylistID, metadata.Tracks): one
\* transaction, rolled back as a whole on any error
SetupSavePlaylistTracks(h, outcome) ==
  /\ setup[h].pc = "save"
  /\ IF outcome \in StoreErrors
       THEN /\ SetupRefused(h, 500, "Database error")
            /\ UNCHANGED <<tracks, playlist_tracks, inserts>>
       ELSE SetupSaved(h)
  /\ UNCHANGED <<downloadQueue, upstreamCalls>>
  /\ SetupUnchanged

\* one iteration of: for _, track := range metadata.Tracks
\*   h.JobQueue <- &models.DownloadJob{Track: track}
\* the send waits while the queue is full
SetupEnqueue(h) ==
  /\ setup[h].pc = "enqueue"
  /\ setup[h].todo # <<>>
  /\ Len(downloadQueue) < queueSlots
  /\ downloadQueue' = Append(downloadQueue, Head(setup[h].todo))
  /\ setup' = [setup EXCEPT ![h].todo = Tail(@)]
  /\ UNCHANGED <<tracks, playlist_tracks, inserts, lastStatus,
                 upstreamCalls>>
  /\ SetupUnchanged

\* json.NewEncoder(w).Encode(response)
SetupRespond(h) ==
  /\ setup[h].pc = "enqueue"
  /\ setup[h].todo = <<>>
  /\ lastStatus' = Response(200, "")
  /\ setup' = [setup EXCEPT ![h] = IdleSetup]
  /\ UNCHANGED <<tracks, playlist_tracks, downloadQueue, inserts,
                 upstreamCalls>>
  /\ SetupUnchanged

(* ---------------------------------------------------------------------- *)
(* WorkerManager.DownloadWorker                                            *)
(* ---------------------------------------------------------------------- *)
IdleWorker == [pc |-> "idle", job |-> "", found |-> "", lines |-> 0]

\* for job := range jobQueue
DownloadDequeue(w) ==
  /\ mainPc = "serving"
  /\ dw[w].pc = "idle"
  /\ downloadQueue # <<>>
  /\ LET t == Head(downloadQueue)
     IN dw' = [dw EXCEPT ![w] = [pc |-> "pending", job |-> t,
                                 found |-> tracks[t].download_status,
                                 lines |-> 0]]
  /\ downloadQueue' = Tail(downloadQueue)
  /\ UNCHANGED <<storeVars, mainVars, demucsQueue, mw, late, dockerVars,
                 busVars, httpVars, tokenVars,
                 callVars>>

\* wm.progress.SendEvent({download, pending, 0})
DownloadSendPending(w) ==
  /\ dw[w].pc = "pending"
  /\ SendEvent(Event(dw[w].job, "download", "pending", 0, ""))
  /\ dw' = [dw EXCEPT ![w].pc = "mark"]
  /\ UNCHANGED <<storeVars, mainVars, queueVars, mw, late, dockerVars, run,
                 clients, sub, connectsLeft, recvLimit,
                 httpVars, tokenVars,
                 callVars>>

\* wm.db.UpdateDownloadStatus(job.Track.ID, "in_progress", ""): the worker
\* discards the error the call returns, so that an UPDATE the store refuses
\* leaves the row as it was and the worker goes on all the same
DownloadMarkInProgress(w) ==
  /\ dw[w].pc = "mark"
  /\ \E committed \in BOOLEAN :
       tracks' = IF committed
                   THEN UpdateDownloadStatus(tracks, dw[w].job, "in_progress", "")
                   ELSE tracks
  /\ dw' = [dw EXCEPT ![w].pc = "download"]
  /\ UNCHANGED <<playlist_tracks, disk, mainVars, queueVars, mw, late,
                 dockerVars, busVars, httpVars, tokenVars,
                 callVars>>

\* the reader goroutine of DownloadTrackFromSpotifyWithProgress parses a
\* "[download] nn%" line and sends it on progressChan
DownloadProgressLine(w) ==
  /\ dw[w].pc = "download"
  /\ dw[w].lines < MaxLines
  /\ SendEvent(Event(dw[w].job, "download", "downloading", 50, ""))
  /\ dw' = [dw EXCEPT ![w].lines = @ + 1]
  /\ UNCHANGED <<storeVars, mainVars, queueVars, mw, late, dockerVars, run,
                 clients, sub, connectsLeft, recvLimit,
                 httpVars, tokenVars,
                 callVars>>

\* cmd.Wait() returns (or an earlier step of the supervisor failed).  The
\* reader goroutine is not joined: it may still hold a parsed line.
DownloadReturn(w, ok, held) ==
  /\ dw[w].pc = "download"
  /\ held => dw[w].lines < MaxLines
  /\ late' = IF held THEN [late EXCEPT ![dw[w].job] = @ + 1] ELSE late
  /\ disk' = IF ok THEN [disk EXCEPT ![dw[w].job] = "full"] ELSE disk
  /\ dw' = [dw EXCEPT ![w].pc = IF ok THEN "completed_db" ELSE "failed_db"]
  /\ UNCHANGED <<tracks, playlist_tracks, mainVars, queueVars, mw,
                 dockerVars, busVars, httpVars, tokenVars,
                 callVars>>

\* a reader goroutine that outlived its supervisor sends the line it holds
LateProgressLine(t) ==
  /\ late[t] > 0
  /\ SendEvent(Event(t, "download", "downloading", 50, ""))
  /\ late' = [late EXCEPT ![t] = @ - 1]
  /\ UNCHANGED <<storeVars, mainVars, queueVars, dw, mw, dockerVars, run,
                 clients, sub, connectsLeft, recvLimit,
                 httpVars, tokenVars,
                 callVars>>

\* wm.db.UpdateDownloadStatus(job.Track.ID, "failed", err.Error())
DownloadMarkFailed(w) ==
  /\ dw[w].pc = "failed_db"
  /\ \E committed \in BOOLEAN :
       tracks' = IF committed
                   THEN UpdateDownloadStatus(tracks, dw[w].job, "failed", "err")
                   ELSE tracks
  /\ dw' = [dw EXCEPT ![w].pc = "failed_ev"]
  /\ UNCHANGED <<playlist_tracks, disk, mainVars, queueVars, mw, late,
                 dockerVars, busVars, httpVars, tokenVars,
                 callVars>>

\* wm.progress.SendEvent({download, failed, 0, err})
DownloadSendFailed(w) ==
  /\ dw[w].pc = "failed_ev"
  /\ SendEvent(Event(dw[w].job, "download", "failed", 0, "err"))
  /\ dw' = [dw EXCEPT ![w] = IdleWorker]
  /\ UNCHANGED <<storeVars, mainVars, queueVars, mw, late, dockerVars, run,
                 clients, sub, connectsLeft, recvLimit,
                 httpVars, tokenVars,
                 callVars>>

\* wm.db.UpdateDownloadStatus(job.Track.ID, "completed", "")
DownloadMarkCompleted(w) ==
  /\ dw[w].pc = "completed_db"
  /\ \E committed \in BOOLEAN :
       tracks' = IF committed
                   THEN UpdateDownloadStatus(tracks, dw[w].job, "completed", "")
                   ELSE tracks
  /\ dw' = [dw EXCEPT ![w].pc = "completed_ev"]
  /\ UNCHANGED <<playlist_tracks, disk, mainVars, queueVars, mw, late,
                 dockerVars, busVars, httpVars, tokenVars,
                 callVars>>

\* DownloadSendCompleted without the SendEvent call
DownloadSkipCompleted(w) ==
  /\ dw[w].pc = "completed_ev"
  /\ dw' = [dw EXCEPT ![w].pc = "enqueue"]
  /\ UNCHANGED <<storeVars, mainVars, queueVars, mw, late, dockerVars,
                 busVars, httpVars, tokenVars,
                 callVars>>

\* wm.progress.SendEvent({download, completed, 100})
DownloadSendCompleted(w) ==
  /\ dw[w].pc = "completed_ev"
  /\ SendEvent(Event(dw[w].job, "download", "completed", 100, ""))
  /\ dw' = [dw EXCEPT ![w].pc = "enqueue"]
  /\ UNCHANGED <<storeVars, mainVars, queueVars, mw, late, dockerVars, run,
                 clients, sub, connectsLeft, recvLimit,
                 httpVars, tokenVars,
                 callVars>>

\* wm.demucsQueue <- &models.DemucsJob{...}
DownloadEnqueueDemucs(w) ==
  /\ dw[w].pc = "enqueue"
  /\ Len(demucsQueue) < queueSlots
  /\ demucsQueue' = Append(demucsQueue, dw[w].job)
  /\ dw' = [dw EXCEPT ![w] = IdleWorker]
  /\ UNCHANGED <<storeVars, mainVars, downloadQueue, mw, late, dockerVars,
                 busVars, httpVars, tokenVars,
                 callVars>>

(* ---------------------------------------------------------------------- *)
(* WorkerManager.DemucsWorker                                              *)
(* ---------------------------------------------------------------------- *)

\* for job := range demucsQueue
DemucsDequeue(w) ==
  /\ mainPc = "serving"
  /\ mw[w].pc = "idle"
  /\ demucsQueue # <<>>
  /\ LET t == Head(demucsQueue)
     IN mw' = [mw EXCEPT ![w] = [pc |-> "pending", job |-> t,
                                 found |-> tracks[t].demucs_status,
                                 lines |-> 0]]
  /\ demucsQueue' = Tail(demucsQueue)
  /\ UNCHANGED <<storeVars, mainVars, downloadQueue, dw, late, dockerVars,
                 busVars, httpVars, tokenVars,
                 callVars>>

\* wm.progress.SendEvent({demucs, pending, 0})
DemucsSendPending(w) ==
  /\ mw[w].pc = "pending"
  /\ SendEvent(Event(mw[w].job, "demucs", "pending", 0, ""))
  /\ mw' = [mw EXCEPT ![w].pc = "mark"]
  /\ UNCHANGED <<storeVars, mainVars, queueVars, dw, late, dockerVars, run,
                 clients, sub, connectsLeft, recvLimit,
                 httpVars, tokenVars,
                 callVars>>

\* wm.db.UpdateDemucsStatus(job.Track.ID, "in_progress", ""), its error
\* discarded as in the download worker
DemucsMarkInProgress(w) ==
  /\ mw[w].pc = "mark"
  /\ \E committed \in BOOLEAN :
       tracks' = IF committed
                   THEN UpdateDemucsStatus(tracks, mw[w].job, "in_progress", "")
                   ELSE tracks
  /\ mw' = [mw EXCEPT ![w].pc = "ensure"]
  /\ UNCHANGED <<playlist_tracks, disk, mainVars, queueVars, dw, late,
                 dockerVars, busVars, httpVars, tokenVars,
                 callVars>>

\* ensureDockerContainer() as the Demucs worker calls it:
\* dockerInitOnce.Do(startDockerContainer), then return dockerInitErr
ensureDockerContainer(w, started) ==
  /\ mw[w].pc = "ensure"
  /\ dockerInit \in {"notrun", "ok", "err"}
  /\ dockerInit' = IF dockerInit = "notrun"
                     THEN (IF started THEN "ok" ELSE "err")
                     ELSE dockerInit
  /\ dockerRuns' = IF dockerInit = "notrun" THEN dockerRuns + 1
                                            ELSE dockerRuns
  /\ mw' = [mw EXCEPT ![w].pc = IF dockerInit' = "ok" THEN "process"
                                                      ELSE "failed_db"]
  /\ UNCHANGED <<storeVars, mainVars, queueVars, dw, late, inv, busVars,
                 httpVars, tokenVars,
                 callVars>>

(* ---------------------------------------------------------------------- *)
(* ensureDockerContainer called from several goroutines                    *)
(* ---------------------------------------------------------------------- *)
IdleInvoker == [pc |-> "idle", ret |-> "", calls |-> 0]

DockerUnchanged ==
  UNCHANGED <<storeVars, mainVars, queueVars, dw, mw, late, busVars,
              httpVars, tokenVars,
              callVars>>

\* ProcessTrackWithDemucs calls ensureDockerContainer()
ProcessTrackWithDemucs(c) ==
  /\ inv[c].pc = "idle"
  /\ inv[c].calls < MaxCalls
  /\ inv' = [inv EXCEPT ![c].pc = "once", ![c].calls = @ + 1, ![c].ret = ""]
  /\ UNCHANGED <<dockerInit, dockerRuns>>
  /\ DockerUnchanged

\* a check of the outcome without the Once: a goroutine that finds no
\* outcome yet starts the container itself
dockerInitCheck(c) ==
  /\ inv[c].pc = "once"
  /\ IF dockerInit \in {"ok", "err"}
       THEN /\ inv' = [inv EXCEPT ![c].pc = "return"]
            /\ UNCHANGED <<dockerInit, dockerRuns>>
       ELSE /\ dockerInit' = "running"
            /\ dockerRuns' = dockerRuns + 1
            /\ inv' = [inv EXCEPT ![c].pc = "start"]
  /\ DockerUnchanged

\* dockerInitOnce.Do(f): the first goroutine runs f, one that arrives while
\* f runs waits for it, one that arrives later returns at once
dockerInitOnceDo(c) ==
  /\ inv[c].pc = "once"
  /\ dockerInit # "running"
  /\ IF dockerInit \in {"ok", "err"}
       THEN /\ inv' = [inv EXCEPT ![c].pc = "return"]
            /\ UNCHANGED <<dockerInit, dockerRuns>>
       ELSE /\ dockerInit' = "running"
            /\ dockerRuns' = dockerRuns + 1
            /\ inv' = [inv EXCEPT ![c].pc = "start"]
  /\ DockerUnchanged

\* dockerInitErr = startDockerContainer()
startDockerContainer(c, started) ==
  /\ inv[c].pc = "start"
  /\ dockerInit' = IF started THEN "ok" ELSE "err"
  /\ inv' = [inv EXCEPT ![c].pc = "return"]
  /\ UNCHANGED dockerRuns
  /\ DockerUnchanged

\* return dockerInitErr
ensureDockerContainerReturn(c) ==
  /\ inv[c].pc = "return"
  /\ inv' = [inv EXCEPT ![c].pc = "idle", ![c].ret = dockerInit]
  /\ UNCHANGED <<dockerInit, dockerRuns>>
  /\ DockerUnchanged

\* DemucsProgressLine of a reader that ProcessTrackWithDemucs does not wait
\* for: it may still send after the function returned
DemucsProgressLineUnjoined(w) ==
  /\ mw[w].pc \in {"process", "completed_db", "failed_db"}
  /\ mw[w].lines < MaxLines
  /\ SendEvent(Event(mw[w].job, "demucs", "processing", 50, ""))
  /\ mw' = [mw EXCEPT ![w].lines = @ + 1]
  /\ UNCHANGED <<storeVars, mainVars, queueVars, dw, late, dockerVars, run,
                 clients, sub, connectsLeft, recvLimit,
                 httpVars, tokenVars,
                 callVars>>

\* the stderr reader of ProcessTrackWithDemucs sends a "processing" event
DemucsProgressLine(w) ==
  /\ mw[w].pc = "process"
  /\ mw[w].lines < MaxLines
  /\ SendEvent(Event(mw[w].job, "demucs", "processing", 50, ""))
  /\ mw' = [mw EXCEPT ![w].lines = @ + 1]
  /\ UNCHANGED <<storeVars, mainVars, queueVars, dw, late, dockerVars, run,
                 clients, sub, connectsLeft, recvLimit,
                 httpVars, tokenVars,
                 callVars>>

\* cmd.Wait() and wg.Wait() have returned
DemucsReturn(w, ok) ==
  /\ mw[w].pc = "process"
  /\ mw' = [mw EXCEPT ![w].pc = IF ok THEN "completed_db" ELSE "failed_db"]
  /\ UNCHANGED <<storeVars, mainVars, queueVars, dw, late, dockerVars,
                 busVars, httpVars, tokenVars,
                 callVars>>

\* wm.db.UpdateDemucsStatus(job.Track.ID, "failed", err.Error())
DemucsMarkFailed(w) ==
  /\ mw[w].pc = "failed_db"
  /\ \E committed \in BOOLEAN :
       tracks' = IF committed
                   THEN UpdateDemucsStatus(tracks, mw[w].job, "failed", "err")
                   ELSE tracks
  /\ mw' = [mw EXCEPT ![w].pc = "failed_ev"]
  /\ UNCHANGED <<playlist_tracks, disk, mainVars, queueVars, dw, late,
                 dockerVars, busVars, httpVars, tokenVars,
                 callVars>>

\* wm.progress.SendEvent({demucs, failed, 0, err})
DemucsSendFailed(w) ==
  /\ mw[w].pc = "failed_ev"
  /\ SendEvent(Event(mw[w].job, "demucs", "failed", 0, "err"))
  /\ mw' = [mw EXCEPT ![w] = IdleWorker]
  /\ UNCHANGED <<storeVars, mainVars, queueVars, dw, late, dockerVars, run,
                 clients, sub, connectsLeft, recvLimit,
                 httpVars, tokenVars,
                 callVars>>

\* wm.db.UpdateDemucsStatus(job.Track.ID, "completed", "")
DemucsMarkCompleted(w) ==
  /\ mw[w].pc = "completed_db"
  /\ \E committed \in BOOLEAN :
       tracks' = IF committed
                   THEN UpdateDemucsStatus(tracks, mw[w].job, "completed", "")
                   ELSE tracks
  /\ mw' = [mw EXCEPT ![w].pc = "completed_ev"]
  /\ UNCHANGED <<playlist_tracks, disk, mainVars, queueVars, dw, late,
                 dockerVars, busVars, httpVars, tokenVars,
                 callVars>>

\* wm.progress.SendEvent({demucs, completed, 100})
DemucsSendCompleted(w) ==
  /\ mw[w].pc = "completed_ev"
  /\ SendEvent(Event(mw[w].job, "demucs", "completed", 100, ""))
  /\ mw' = [mw EXCEPT ![w] = IdleWorker]
  /\ UNCHANGED <<storeVars, mainVars, queueVars, dw, late, dockerVars, run,
                 clients, sub, connectsLeft, recvLimit,
                 httpVars, tokenVars,
                 callVars>>

NoEvent == Event("", "", "", 0, "")
RunSelect == [pc |-> "select", ev |-> NoEvent, todo |-> {}]
NoSub == [st |-> "none", recv |-> <<>>]

(* ---------------------------------------------------------------------- *)
(* Process exit and the next start                                         *)
(* ---------------------------------------------------------------------- *)
\* the process ends: http.ListenAndServe returns and log.Fatal exits, or a
\* signal terminates the process (main installs no handler and closes no
\* queue).  Every goroutine ends where it is, and the queues, the events
\* and everything else in memory are gone; the store and the disk stay.
MainExit ==
  /\ mainPc = "serving"
  /\ mainPc' = "exited"
  /\ pendingList' = <<>>
  /\ resynced' = {}
  /\ downloadQueue' = <<>>
  /\ demucsQueue' = <<>>
  /\ dw' = [w \in Workers |-> IdleWorker]
  /\ mw' = [w \in DemucsWorkers |-> IdleWorker]
  /\ late' = [t \in Tracks |-> 0]
  /\ dockerInit' = "notrun"
  /\ dockerRuns' = 0
  /\ events' = <<>>
  /\ published' = {}
  /\ run' = RunSelect
  /\ clients' = {}
  /\ sub' = [c \in Subs |-> NoSub]
  /\ lastStatus' = Response(0, "")
  /\ setup' = [h \in Requests |-> IdleSetup]
  /\ upstreamCalls' = 0
  /\ skipped' = {}
  /\ UNCHANGED <<storeVars, inv, busLog, connectsLeft, recvLimit, catalog,
                 submitsLeft, inserts, accessToken, tokenExpiry, tokenMutex,
                 now, issued, tk,
                 resolveVars, sepVars, queueSlots, eventSlots>>

\* the server is started again on the store and the disk that the last
\* process left
ProcessStart ==
  /\ mainPc = "exited"
  /\ mainPc' = "verify"
  /\ UNCHANGED <<storeVars, pendingList, resynced, queueVars, workerVars,
                 busVars, httpVars, tokenVars,
                 callVars>>

(* ---------------------------------------------------------------------- *)
(* ProgressBroadcaster                                                     *)
(* ---------------------------------------------------------------------- *)

\* GET /progress/stream: RegisterClient() makes the channel and blocks on
\* b.newClients <- clientChan
SubConnect(c) ==
  /\ mainPc = "serving"
  /\ connectsLeft > 0
  /\ sub[c].st = "none"
  /\ sub' = [sub EXCEPT ![c].st = "registering"]
  /\ connectsLeft' = connectsLeft - 1
  /\ UNCHANGED <<storeVars, mainVars, queueVars, workerVars, events, run,
                 clients, busLog, published, recvLimit, httpVars, tokenVars,
                 callVars>>

\* run: case client := <-b.newClients: b.clients[client] = true.  The send
\* of RegisterClient has completed; the handler has yet to reach its select
RunRegister(c) ==
  /\ run.pc = "select"
  /\ sub[c].st = "registering"
  /\ clients' = clients \cup {c}
  /\ sub' = [sub EXCEPT ![c].st = "registered"]
  /\ UNCHANGED <<storeVars, mainVars, queueVars, workerVars, events, run,
                 busLog, published, connectsLeft, recvLimit,
                 httpVars, tokenVars,
                 callVars>>

\* RegisterClient has returned: the handler sets up the deferred
\* UnregisterClient and enters its select for the first time
SubSelect(c) ==
  /\ sub[c].st = "registered"
  /\ sub' = [sub EXCEPT ![c].st = "waiting"]
  /\ UNCHANGED <<storeVars, mainVars, queueVars, workerVars, events, run,
                 clients, busLog, published, connectsLeft, recvLimit,
                 httpVars, tokenVars,
                 callVars>>

\* the handler has written and flushed an event and is back at its select
SubFlush(c) ==
  /\ sub[c].st = "writing"
  /\ Len(sub[c].recv) < recvLimit
  /\ sub' = [sub EXCEPT ![c].st = "waiting"]
  /\ UNCHANGED <<storeVars, mainVars, queueVars, workerVars, events, run,
                 clients, busLog, published, connectsLeft, recvLimit,
                 httpVars, tokenVars,
                 callVars>>

\* case <-r.Context().Done(): the deferred UnregisterClient blocks on
\* b.closingClients <- clientChan
SubDisconnect(c) ==
  /\ sub[c].st = "waiting"
  /\ sub' = [sub EXCEPT ![c].st = "closing"]
  /\ UNCHANGED <<storeVars, mainVars, queueVars, workerVars, events, run,
                 clients, busLog, published, connectsLeft, recvLimit,
                 httpVars, tokenVars,
                 callVars>>

\* RunUnregister that closes the channel and leaves it in b.clients
RunUnregisterKeepsClient(c) ==
  /\ run.pc = "select"
  /\ sub[c].st = "closing"
  /\ sub' = [sub EXCEPT ![c].st = "closed"]
  /\ UNCHANGED <<storeVars, mainVars, queueVars, workerVars, events, run,
                 clients, busLog, published, connectsLeft, recvLimit,
                 httpVars, tokenVars,
                 callVars>>

\* run: case client := <-b.closingClients: delete, close
RunUnregister(c) ==
  /\ run.pc = "select"
  /\ sub[c].st = "closing"
  /\ clients' = clients \ {c}
  /\ sub' = [sub EXCEPT ![c].st = "closed"]
  /\ UNCHANGED <<storeVars, mainVars, queueVars, workerVars, events, run,
                 busLog, published, connectsLeft, recvLimit,
                 httpVars, tokenVars,
                 callVars>>

\* RunReceive from a channel that hands out its newest event first
RunReceiveNewestFirst ==
  /\ run.pc = "select"
  /\ events # <<>>
  /\ events' = SubSeq(events, 1, Len(events) - 1)
  /\ run' = IF clients = {} THEN RunSelect
            ELSE [pc |-> "broadcast", ev |-> events[Len(events)],
                  todo |-> clients]
  /\ UNCHANGED <<storeVars, mainVars, queueVars, workerVars, clients, sub,
                 busLog, published, connectsLeft, recvLimit,
                 httpVars, tokenVars,
                 callVars>>

\* run: case event := <-b.events
RunReceive ==
  /\ run.pc = "select"
  /\ events # <<>>
  /\ events' = Tail(events)
  /\ run' = IF clients = {} THEN RunSelect
            ELSE [pc |-> "broadcast", ev |-> Head(events), todo |-> clients]
  /\ UNCHANGED <<storeVars, mainVars, queueVars, workerVars, clients, sub,
                 busLog, published, connectsLeft, recvLimit,
                 httpVars, tokenVars,
                 callVars>>

\* RunOffer with a blocking send: the loop waits for the client to receive
RunOfferBlocking(c) ==
  /\ run.pc = "broadcast"
  /\ c \in run.todo
  /\ sub[c].st = "waiting"
  /\ sub' = [sub EXCEPT ![c].st = "writing", ![c].recv = Append(@, run.ev)]
  /\ run' = IF run.todo = {c} THEN RunSelect
            ELSE [run EXCEPT !.todo = @ \ {c}]
  /\ UNCHANGED <<storeVars, mainVars, queueVars, workerVars, events, clients,
                 busLog, published, connectsLeft, recvLimit, httpVars,
                 tokenVars,
                 callVars>>

\* one iteration of the broadcast loop:
\*   select { case client <- event: default: }
\* the channel is unbuffered, so the send succeeds only if the handler is
\* waiting in its receive
RunOffer(c) ==
  /\ run.pc = "broadcast"
  /\ c \in run.todo
  /\ sub' = IF sub[c].st = "waiting"
              THEN [sub EXCEPT ![c].st = "writing",
                               ![c].recv = Append(@, run.ev)]
              ELSE sub
  /\ run' = IF run.todo = {c} THEN RunSelect
            ELSE [run EXCEPT !.todo = @ \ {c}]
  /\ UNCHANGED <<storeVars, mainVars, queueVars, workerVars, events, clients,
                 busLog, published, connectsLeft, recvLimit,
                 httpVars, tokenVars,
                 callVars>>

\* a producer calls SendEvent; each event carries a fresh progress value
Publish(t) ==
  /\ mainPc = "serving"
  /\ Len(busLog) < MaxPublish
  /\ SendEvent(Event(t, "download", "downloading", Len(busLog) + 1, ""))
  /\ UNCHANGED <<storeVars, mainVars, queueVars, workerVars, run, clients,
                 sub, connectsLeft, recvLimit,
                 httpVars, tokenVars,
                 callVars>>

(* ---------------------------------------------------------------------- *)
(* Access token                                                            *)
(* ---------------------------------------------------------------------- *)
\* lifetimes the credential endpoint answers with (expires_in, in minutes)
Lifetimes == {60}
TokenErr == 0 - 1
IdleCaller == [pc |-> "idle", ret |-> 0, stale |-> FALSE]

\* the cache test without time.Now().Before(s.tokenExpiry)
FreshWithoutExpiry == accessToken # 0

\* s.accessToken != "" && time.Now().Before(s.tokenExpiry)
Fresh == accessToken # 0 /\ now < tokenExpiry

\* Server.getAccessToken, fast path: RLock, check, RUnlock
getAccessTokenFastPath(c) ==
  /\ tk[c].pc = "idle"
  /\ tokenMutex = 0
  /\ tk' = [tk EXCEPT ![c] =
              IF Fresh THEN [pc |-> "done", ret |-> accessToken,
                             stale |-> FALSE]
                       ELSE [pc |-> "slow", ret |-> 0, stale |-> TRUE]]
  /\ UNCHANGED <<storeVars, mainVars, queueVars, workerVars, busVars,
                 httpVars, accessToken, tokenExpiry, tokenMutex, now, issued,
                 upstreamCalls,
                 callVars>>

\* s.tokenMutex.Lock()
getAccessTokenLock(c) ==
  /\ tk[c].pc = "slow"
  /\ tokenMutex = 0
  /\ tokenMutex' = c
  /\ tk' = [tk EXCEPT ![c].pc = "locked"]
  /\ UNCHANGED <<storeVars, mainVars, queueVars, workerVars, busVars,
                 httpVars, accessToken, tokenExpiry, now, issued,
                 upstreamCalls,
                 callVars>>

\* the double-check under the write lock
getAccessTokenDoubleCheck(c) ==
  /\ tk[c].pc = "locked"
  /\ IF Fresh
       THEN /\ tk' = [tk EXCEPT ![c].pc = "done", ![c].ret = accessToken]
            /\ tokenMutex' = 0
       ELSE /\ tk' = [tk EXCEPT ![c].pc = "fetch"]
            /\ UNCHANGED tokenMutex
  /\ UNCHANGED <<storeVars, mainVars, queueVars, workerVars, busVars,
                 httpVars, accessToken, tokenExpiry, now, issued,
                 upstreamCalls,
                 callVars>>

\* getAccessTokenRefresh that returns the error of a failed request without
\* the deferred Unlock
getAccessTokenRefreshKeepsLock(c, ok, expiresIn) ==
  /\ tk[c].pc = "fetch"
  /\ upstreamCalls' = upstreamCalls + 1
  /\ IF ok
       THEN /\ issued' = issued + 1
            /\ accessToken' = issued + 1
            /\ tokenExpiry' = now + expiresIn - SkewMinutes
            /\ tk' = [tk EXCEPT ![c].pc = "done", ![c].ret = issued + 1]
            /\ tokenMutex' = 0
       ELSE /\ tk' = [tk EXCEPT ![c].pc = "done", ![c].ret = TokenErr]
            /\ UNCHANGED <<issued, accessToken, tokenExpiry, tokenMutex>>
  /\ UNCHANGED <<storeVars, mainVars, queueVars, workerVars, busVars,
                 httpVars, now,
                 callVars>>

\* getAccessTokenWithExpiry(config), then the cache is written and the
\* deferred Unlock runs
getAccessTokenRefresh(c, ok, expiresIn) ==
  /\ tk[c].pc = "fetch"
  /\ upstreamCalls' = upstreamCalls + 1
  /\ IF ok
       THEN /\ issued' = issued + 1
            /\ accessToken' = issued + 1
            /\ tokenExpiry' = now + expiresIn - SkewMinutes
            /\ tk' = [tk EXCEPT ![c].pc = "done", ![c].ret = issued + 1]
       ELSE /\ tk' = [tk EXCEPT ![c].pc = "done", ![c].ret = TokenErr]
            /\ UNCHANGED <<issued, accessToken, tokenExpiry>>
  /\ tokenMutex' = 0
  /\ UNCHANGED <<storeVars, mainVars, queueVars, workerVars, busVars,
                 httpVars, now,
                 callVars>>

\* core.GetAccessToken(config), as SetupPlaylistHandler and main() call it:
\* one request to the credential endpoint per call
GetAccessToken(c, ok) ==
  /\ tk[c].pc = "idle"
  /\ upstreamCalls' = upstreamCalls + 1
  /\ IF ok
       THEN /\ issued' = issued + 1
            /\ tk' = [tk EXCEPT ![c] = [pc |-> "done", ret |-> issued + 1,
                                        stale |-> ~Fresh]]
       ELSE /\ tk' = [tk EXCEPT ![c] = [pc |-> "done", ret |-> TokenErr,
                                        stale |-> ~Fresh]]
            /\ UNCHANGED issued
  /\ UNCHANGED <<storeVars, mainVars, queueVars, workerVars, busVars,
                 httpVars, accessToken, tokenExpiry, tokenMutex, now,
                 callVars>>

\* time passes
Tick(d) ==
  /\ now + d <= MaxClock
  /\ now' = now + d
  /\ UNCHANGED <<storeVars, mainVars, queueVars, workerVars, busVars,
                 httpVars, accessToken, tokenExpiry, tokenMutex, issued,
                 upstreamCalls, tk,
                 callVars>>

(* ---------------------------------------------------------------------- *)
(* GetPlaylistMetadataWithToken                                            *)
(* ---------------------------------------------------------------------- *)
\* A page is what one GET answers.  shape "playlist" is a body
\* {name, tracks: {items, next, total}}, as /v1/playlists/{id} answers;
\* shape "paging" is a body {items, next, total}, as the continuation link
\* /v1/playlists/{id}/tracks?offset=.. answers.  ok = FALSE is a transport
\* error, a status other than 200 or a body that does not decode.
PageShapes == {"playlist", "paging"}
PageItems == {<<>>, <<"T1">>, <<"T1", "T2">>}
Page(shape, items, ok) == [shape |-> shape, items |-> items, ok |-> ok]
AnyPages == {Page(shape, items, ok) :
               shape \in PageShapes, items \in PageItems, ok \in BOOLEAN}

\* the catalog links page i to page i + 1 and reports the sum of the item
\* counts as total
RECURSIVE ItemCount(_, _)
ItemCount(pgs, n) ==
  IF n = 0 THEN 0 ELSE ItemCount(pgs, n - 1) + Len(pgs[n].items)

NextLink(pgs, i) == IF i < Len(pgs) THEN i + 1 ELSE 0

\* json.NewDecoder(resp.Body).Decode(&playlistResp): the Tracks field of a
\* playlistResponse; a body without a "tracks" object leaves it zero
playlistResponse(pgs, i) ==
  IF pgs[i].shape = "playlist"
    THEN [Items |-> pgs[i].items, Next |-> NextLink(pgs, i),
          Total |-> ItemCount(pgs, Len(pgs))]
    ELSE [Items |-> <<>>, Next |-> 0, Total |-> 0]

NoMetadata == [TotalTracks |-> 0, Tracks |-> <<>>]

ResolveUnchanged ==
  UNCHANGED <<storeVars, mainVars, queueVars, workerVars, busVars, httpVars,
              tokenVars, sepVars, queueSlots, eventSlots, skipped>>

\* the first page: fetchPlaylistPage(playlistID, accessToken, ""), then
\* processItems(playlistResp.Tracks.Items)
GetPlaylistMetadataWithToken ==
  /\ resolvePc = "start"
  /\ IF pages[1].ok
       THEN LET resp == playlistResponse(pages, 1)
            IN /\ metadata' = [TotalTracks |-> resp.Total,
                               Tracks |-> resp.Items]
               /\ nextURL' = resp.Next
               /\ resolvePc' = "loop"
               /\ UNCHANGED resolveErr
       ELSE /\ resolvePc' = "done"
            /\ resolveErr' = "err"
            /\ UNCHANGED <<metadata, nextURL>>
  /\ UNCHANGED pages
  /\ ResolveUnchanged

\* one iteration of: for nextURL != ""
fetchRemainingPage ==
  /\ resolvePc = "loop"
  /\ nextURL # 0
  /\ IF pages[nextURL].ok
       THEN LET pageResp == playlistResponse(pages, nextURL)
            IN /\ metadata' = [metadata EXCEPT
                                 !.Tracks = @ \o pageResp.Items]
               /\ nextURL' = pageResp.Next
               /\ UNCHANGED <<resolvePc, resolveErr>>
       ELSE /\ resolvePc' = "done"
            /\ resolveErr' = "err"
            /\ metadata' = NoMetadata
            /\ UNCHANGED nextURL
  /\ UNCHANGED pages
  /\ ResolveUnchanged

\* return metadata, nil
returnMetadata ==
  /\ resolvePc = "loop"
  /\ nextURL = 0
  /\ resolvePc' = "done"
  /\ UNCHANGED <<pages, metadata, nextURL, resolveErr>>
  /\ ResolveUnchanged

(* ---------------------------------------------------------------------- *)
(* ProcessTrackWithDemucs: the progress of the separator                   *)
(* ---------------------------------------------------------------------- *)
\* One stderr update after ansiRegex and TrimSpace: the number matched by
\* ^\s*(\d+)% , or NoPercent for an update without such a prefix.
NoPercent == 0 - 1
Updates == {NoPercent, 0, 49, 50, 100, 150}

\* if modelProgress < *lastProgress-50 { *currentModel++ } with no pass
\* detection at all
PassBoundaryNever(last, modelProgress) == FALSE

\* modelProgress < *lastProgress-50
PassBoundary(last, modelProgress) == modelProgress < last - 50

\* what model i adds to totalProgress
Contribution(i, model, modelProgress) ==
  IF i < model THEN 100 ELSE IF i = model THEN modelProgress ELSE 0

RECURSIVE TotalProgress(_, _, _)
\* for i := 0; i < 4; i++ { totalProgress += ... }, the first n models
TotalProgress(n, model, modelProgress) ==
  IF n = 0 THEN 0
  ELSE TotalProgress(n - 1, model, modelProgress)
         + Contribution(n - 1, model, modelProgress)

\* the progress computed without the loop over the four models and without
\* the cap
OverallProgressUncapped(model, modelProgress) == model * 100 + modelProgress

\* overallProgress := totalProgress / 4.0, capped at 100, in the units of
\* ProgressEvent: the value v is written as the integer numModels * v, which
\* is exact since totalProgress is a sum of integers.
OverallProgress(model, modelProgress) ==
  LET totalProgress == TotalProgress(numModels, model, modelProgress)
  IN IF totalProgress > 100 * numModels THEN 100 * numModels
     ELSE totalProgress

\* a pass that reached 100 is followed by one that starts at 0.  The updates
\* are those of regular passes (sepRegular) while within a pass the
\* percentage does not decrease and a pass ends only in this way.
Restart(last, modelProgress) == last = 100 /\ modelProgress = 0

\* processDemucsOutput(update, ...), called by the stderr reader for each
\* update of a line
processDemucsOutput(w, update) ==
  /\ mw[w].pc = "process"
  /\ sepLines < MaxUpdates
  /\ sepLines' = sepLines + 1
  /\ IF update < 0 \/ update > 100
       THEN UNCHANGED <<events, busLog, published, currentModel,
                        lastProgress, sepOut, sepRestarts, sepRegular>>
       ELSE /\ currentModel' = IF PassBoundary(lastProgress, update)
                                 THEN currentModel + 1 ELSE currentModel
            /\ lastProgress' = update
            /\ sepOut' = OverallProgress(currentModel', update)
            /\ SendEvent(ProgressEvent(mw[w].job, "demucs", "processing",
                                       OverallProgress(currentModel', update),
                                       ""))
            /\ sepRestarts' = IF Restart(lastProgress, update)
                                THEN sepRestarts + 1 ELSE sepRestarts
            /\ sepRegular' = (/\ sepRegular
                              /\ \/ update >= lastProgress
                                 \/ /\ Restart(lastProgress, update)
                                    /\ sepRestarts < numModels - 1)
  /\ UNCHANGED <<storeVars, mainVars, queueVars, workerVars, run, clients,
                 sub, connectsLeft, recvLimit, httpVars, tokenVars,
                 resolveVars, queueSlots, eventSlots, skipped>>

(* ---------------------------------------------------------------------- *)
(* Initial states                                                          *)
(* ---------------------------------------------------------------------- *)
ErrOf(status) == IF status = "failed" THEN "err" ELSE ""

PersistedRow(dl, dm) ==
  [known |-> TRUE, download_status |-> dl, error_message |-> ErrOf(dl),
   demucs_status |-> dm, demucs_error_message |-> ErrOf(dm)]

\* every row a store can hold
AnyRows == {NoRow} \cup {PersistedRow(dl, dm) : dl \in Statuses, dm \in Statuses}

\* the engine is started on an empty store and is given a new playlist, or
\* on a store in which an earlier process left T1 waiting for its download,
\* waiting for Demucs, or failed, and is given T1's playlist again
EngineSeeds ==
  { <<NoRow, "absent", {"P2", "P3"}>>,
    <<PersistedRow("pending", "pending"), "absent", {"P1"}>>,
    <<PersistedRow("completed", "pending"), "full", {"P1"}>>,
    <<PersistedRow("failed", "pending"), "absent", {"P1"}>> }

TokenIdle ==
  /\ accessToken = 0
  /\ tokenExpiry = 0
  /\ tokenMutex = 0
  /\ now = 0
  /\ issued = 0
  /\ upstreamCalls = 0
  /\ tk = [c \in Callers |-> IdleCaller]

\* make(chan *models.DownloadJob, 1000), make(chan *models.DemucsJob, 1000)
QueuesMade == queueSlots = QueueCap

ResolveIdle ==
  /\ pages = <<>>
  /\ resolvePc = "idle"
  /\ metadata = NoMetadata
  /\ nextURL = 0
  /\ resolveErr = ""

SeparatorIdle ==
  /\ currentModel = 0
  /\ lastProgress = 0
  /\ sepOut = 0
  /\ sepLines = 0
  /\ sepRestarts = 0
  /\ sepRegular = TRUE

WorkersIdle ==
  /\ SeparatorIdle
  /\ pendingList = <<>>
  /\ resynced = {}
  /\ downloadQueue = <<>>
  /\ demucsQueue = <<>>
  /\ dw = [w \in Workers |-> IdleWorker]
  /\ mw = [w \in DemucsWorkers |-> IdleWorker]
  /\ late = [t \in Tracks |-> 0]
  /\ dockerInit = "notrun"
  /\ dockerRuns = 0
  /\ inv = [c \in Callers |-> IdleInvoker]
  /\ playlist_tracks = {}
  /\ lastStatus = Response(0, "")
  /\ inserts = [t \in Tracks |-> 0]

BusIdle ==
  /\ events = <<>>
  /\ published = {}
  /\ run = RunSelect
  /\ clients = {}
  /\ sub = [c \in Subs |-> NoSub]

Seeded(seeds) ==
  \E seed \in seeds :
    /\ tracks = [t \in Tracks |-> IF t = "T1" THEN seed[1] ELSE NoRow]
    /\ disk = [t \in Tracks |-> IF t = "T1" THEN seed[2] ELSE "absent"]
    /\ catalog = seed[3]

\* the engine, from process start
Init ==
  /\ Seeded(EngineSeeds)
  /\ mainPc = "verify"
  /\ WorkersIdle /\ BusIdle /\ TokenIdle /\ ResolveIdle /\ QueuesMade
  /\ busLog = NotRecorded
  /\ skipped = {}
  /\ eventSlots = MaxDrained
  /\ setup = [h \in Requests |-> IdleSetup]
  /\ connectsLeft = 0
  /\ recvLimit = 0
  /\ submitsLeft = MaxSubmits

\* with an SSE client connected and nothing submitted: an earlier process
\* left T1 waiting for its download, or downloaded and waiting for Demucs
EventSeeds ==
  { <<PersistedRow("pending", "pending"), "absent", {}>>,
    <<PersistedRow("completed", "pending"), "full", {}>> }

\* the engine is started on an empty store and is given a playlist of two
\* tracks, or on a store with work left by an earlier process
LiveSeeds ==
  { <<NoRow, "absent", {"P2"}>>,
    <<PersistedRow("pending", "pending"), "absent", {}>>,
    <<PersistedRow("completed", "pending"), "full", {}>> }

InitLive ==
  /\ Seeded(LiveSeeds)
  /\ mainPc = "verify"
  /\ WorkersIdle /\ BusIdle /\ TokenIdle /\ ResolveIdle /\ QueuesMade
  /\ busLog = NotRecorded
  /\ skipped = {}
  /\ eventSlots = MaxDrained
  /\ setup = [h \in Requests |-> IdleSetup]
  /\ connectsLeft = 0
  /\ recvLimit = 0
  /\ submitsLeft = MaxSubmits

\* the engine with an SSE client
InitEvents ==
  /\ Seeded(EventSeeds)
  /\ mainPc = "verify"
  /\ WorkersIdle /\ BusIdle /\ TokenIdle /\ ResolveIdle /\ QueuesMade
  /\ busLog = <<>>
  /\ skipped = {}
  /\ eventSlots = MaxBuffered
  /\ setup = [h \in Requests |-> IdleSetup]
  /\ connectsLeft = 1
  /\ recvLimit = MaxRecv
  /\ submitsLeft = 0

\* startup on any persisted store and any disk
InitBoot ==
  /\ tracks \in [Tracks -> AnyRows]
  /\ disk \in [Tracks -> DiskStates]
  /\ mainPc = "verify"
  /\ WorkersIdle /\ BusIdle /\ TokenIdle /\ ResolveIdle /\ QueuesMade
  /\ busLog = NotRecorded
  /\ skipped = {}
  /\ eventSlots = MaxDrained
  /\ setup = [h \in Requests |-> IdleSetup]
  /\ connectsLeft = 0
  /\ recvLimit = 0
  /\ catalog = PlaylistIDs
  /\ submitsLeft = 0

\* stores the process is started on when the pending-download resync is
\* looked at, with the submissions that follow: the rows of T1 and T2, the
\* file of T2, the playlists of the catalog and the submissions accepted
SubmitSeeds ==
  { <<PersistedRow("pending", "pending"), PersistedRow("pending", "pending"),
      "absent", {}, 0>>,
    <<PersistedRow("pending", "pending"),
      PersistedRow("completed", "pending"), "full", {}, 0>>,
    <<PersistedRow("pending", "pending"), NoRow, "absent", {"P1"},
      MaxSubmits>> }

\* main() started on a store with pending downloads, with job queues of
\* the capacity of the code or of a single slot
InitSubmit ==
  /\ \E seed \in SubmitSeeds :
       /\ tracks = [t \in Tracks |-> IF t = "T1" THEN seed[1] ELSE seed[2]]
       /\ disk = [t \in Tracks |-> IF t = "T1" THEN "absent" ELSE seed[3]]
       /\ catalog = seed[4]
       /\ submitsLeft = seed[5]
  /\ mainPc = "verify"
  /\ WorkersIdle /\ BusIdle /\ TokenIdle /\ ResolveIdle
  /\ queueSlots \in {MaxQueued, QueueCap}
  /\ busLog = NotRecorded
  /\ skipped = {}
  /\ eventSlots = MaxDrained
  /\ setup = [h \in Requests |-> IdleSetup]
  /\ connectsLeft = 0
  /\ recvLimit = 0

\* main() started on a store that holds more unfinished tracks than a job
\* queue has slots: the two tracks of the model and queues of MaxQueued
\* slots stand for more than QueueCap tracks and queues of QueueCap slots
InitFullQueue ==
  /\ tracks \in [Tracks -> AnyRows]
  /\ disk \in [Tracks -> DiskStates]
  /\ mainPc = "verify"
  /\ WorkersIdle /\ BusIdle /\ TokenIdle /\ ResolveIdle
  /\ queueSlots = MaxQueued
  /\ busLog = NotRecorded
  /\ skipped = {}
  /\ eventSlots = MaxDrained
  /\ setup = [h \in Requests |-> IdleSetup]
  /\ connectsLeft = 0
  /\ recvLimit = 0
  /\ catalog = PlaylistIDs
  /\ submitsLeft = 0

\* an empty store and a playlist of one track; the process may end and be
\* started again
RestartSeeds == { <<NoRow, "absent", {"P1"}>> }

InitRestart ==
  /\ Seeded(RestartSeeds)
  /\ mainPc = "verify"
  /\ WorkersIdle /\ BusIdle /\ TokenIdle /\ ResolveIdle /\ QueuesMade
  /\ busLog = NotRecorded
  /\ skipped = {}
  /\ eventSlots = MaxDrained
  /\ setup = [h \in Requests |-> IdleSetup]
  /\ connectsLeft = 0
  /\ recvLimit = 0
  /\ submitsLeft = MaxSubmits

\* one call of GetPlaylistMetadataWithToken; the catalog answers the first
\* request with a playlist object and splits the playlist into up to
\* MaxPages pages
InitPlaylist ==
  /\ tracks = [t \in Tracks |-> NoRow]
  /\ disk = [t \in Tracks |-> "absent"]
  /\ mainPc = "serving"
  /\ WorkersIdle
  /\ BusIdle
  /\ TokenIdle
  /\ QueuesMade
  /\ busLog = NotRecorded
  /\ skipped = {}
  /\ eventSlots = MaxDrained
  /\ setup = [h \in Requests |-> IdleSetup]
  /\ connectsLeft = 0
  /\ recvLimit = 0
  /\ catalog = {}
  /\ submitsLeft = 0
  /\ pages \in UNION {[1..n -> AnyPages] : n \in 1..MaxPages}
  /\ pages[1].shape = "playlist"
  /\ resolvePc = "start"
  /\ metadata = NoMetadata
  /\ nextURL = 0
  /\ resolveErr = ""

\* the Demucs worker with one job on its queue, as the startup resync
\* leaves it for a track that was downloaded
InitSeparator ==
  /\ tracks = [t \in Tracks |->
        IF t = "T1" THEN PersistedRow("completed", "pending") ELSE NoRow]
  /\ disk = [t \in Tracks |-> IF t = "T1" THEN "full" ELSE "absent"]
  /\ mainPc = "serving"
  /\ SeparatorIdle
  /\ pendingList = <<>>
  /\ resynced = {"T1"}
  /\ downloadQueue = <<>>
  /\ demucsQueue = <<"T1">>
  /\ dw = [w \in Workers |-> IdleWorker]
  /\ mw = [w \in DemucsWorkers |-> IdleWorker]
  /\ late = [t \in Tracks |-> 0]
  /\ dockerInit = "notrun"
  /\ dockerRuns = 0
  /\ inv = [c \in Callers |-> IdleInvoker]
  /\ playlist_tracks = {}
  /\ lastStatus = Response(0, "")
  /\ inserts = [t \in Tracks |-> 0]
  /\ BusIdle /\ TokenIdle /\ ResolveIdle /\ QueuesMade
  /\ busLog = NotRecorded
  /\ skipped = {}
  /\ eventSlots = MaxDrained
  /\ setup = [h \in Requests |-> IdleSetup]
  /\ connectsLeft = 0
  /\ recvLimit = 0
  /\ catalog = {}
  /\ submitsLeft = 0

\* the broadcaster alone, with producers and SSE clients
InitBus ==
  /\ tracks = [t \in Tracks |-> NoRow]
  /\ disk = [t \in Tracks |-> "absent"]
  /\ mainPc = "serving"
  /\ WorkersIdle /\ BusIdle /\ TokenIdle /\ ResolveIdle /\ QueuesMade
  /\ busLog = <<>>
  /\ skipped = {}
  /\ eventSlots = MaxBuffered
  /\ setup = [h \in Requests |-> IdleSetup]
  /\ connectsLeft = MaxSubs
  /\ recvLimit = MaxPublish
  /\ catalog = {}
  /\ submitsLeft = 0

\* goroutines asking for a token, the cache empty
InitToken ==
  /\ tracks = [t \in Tracks |-> NoRow]
  /\ disk = [t \in Tracks |-> "absent"]
  /\ mainPc = "serving"
  /\ WorkersIdle /\ BusIdle /\ TokenIdle /\ ResolveIdle /\ QueuesMade
  /\ busLog = NotRecorded
  /\ skipped = {}
  /\ eventSlots = MaxDrained
  /\ setup = [h \in Requests |-> IdleSetup]
  /\ connectsLeft = 0
  /\ recvLimit = 0
  /\ catalog = {}
  /\ submitsLeft = 0

(* ---------------------------------------------------------------------- *)
(* Next-state relations                                                    *)
(* ---------------------------------------------------------------------- *)
MainStep ==
  \/ MainVerify
  \/ MainLoadPendingDownloads
  \/ MainGetTrackMetadata
  \/ MainResyncDownload
  \/ MainLoadPendingDemucs
  \/ MainResyncDemucs
  \/ MainStartWorkers

SetupStep ==
  \E h \in Requests :
    \/ \E playlistID \in PlaylistIDs \cup {""}, request \in SetupRequests :
         SetupPlaylistHandler(h, playlistID, request)
    \/ \E ok \in BOOLEAN : SetupGetAccessToken(h, ok)
    \/ \E outcome \in ResolveOutcomes : SetupGetPlaylistMetadata(h, outcome)
    \/ \E outcome \in {"ok"} \cup StoreErrors :
         SetupSavePlaylistTracks(h, outcome)
    \/ SetupEnqueue(h)
    \/ SetupRespond(h)

DownloadStep ==
  \E w \in Workers :
    \/ DownloadDequeue(w)
    \/ DownloadSendPending(w)
    \/ DownloadMarkInProgress(w)
    \/ DownloadProgressLine(w)
    \/ \E ok \in BOOLEAN, held \in BOOLEAN : DownloadReturn(w, ok, held)
    \/ DownloadMarkFailed(w)
    \/ DownloadSendFailed(w)
    \/ DownloadMarkCompleted(w)
    \/ DownloadSendCompleted(w)
    \/ DownloadEnqueueDemucs(w)

LateStep == \E t \in Tracks : LateProgressLine(t)

DemucsStep ==
  \E w \in DemucsWorkers :
    \/ DemucsDequeue(w)
    \/ DemucsSendPending(w)
    \/ DemucsMarkInProgress(w)
    \/ \E started \in BOOLEAN : ensureDockerContainer(w, started)
    \/ DemucsProgressLine(w)
    \/ \E ok \in BOOLEAN : DemucsReturn(w, ok)
    \/ DemucsMarkFailed(w)
    \/ DemucsSendFailed(w)
    \/ DemucsMarkCompleted(w)
    \/ DemucsSendCompleted(w)

RunStep ==
  \/ RunReceive
  \/ \E c \in Subs : RunRegister(c) \/ RunUnregister(c) \/ RunOffer(c)

SubStep ==
  \E c \in Subs :
    SubConnect(c) \/ SubSelect(c) \/ SubFlush(c) \/ SubDisconnect(c)

PublishStep == \E t \in Tracks : Publish(t)

TokenStep ==
  \/ \E c \in Callers :
       \/ getAccessTokenFastPath(c)
       \/ getAccessTokenLock(c)
       \/ getAccessTokenDoubleCheck(c)
       \/ \E ok \in BOOLEAN, expiresIn \in Lifetimes :
            getAccessTokenRefresh(c, ok, expiresIn)
       \/ \E ok \in BOOLEAN : GetAccessToken(c, ok)
  \/ \E d \in {1, 54} : Tick(d)

DockerStep ==
  \E c \in Callers :
    \/ ProcessTrackWithDemucs(c)
    \/ dockerInitOnceDo(c)
    \/ \E started \in BOOLEAN : startDockerContainer(c, started)
    \/ ensureDockerContainerReturn(c)

ResolveStep ==
  \/ GetPlaylistMetadataWithToken
  \/ fetchRemainingPage
  \/ returnMetadata

\* the Demucs worker, the updates of the separator parsed one by one
SeparatorStep ==
  \E w \in DemucsWorkers :
    \/ DemucsDequeue(w)
    \/ DemucsSendPending(w)
    \/ DemucsMarkInProgress(w)
    \/ \E started \in BOOLEAN : ensureDockerContainer(w, started)
    \/ \E update \in Updates : processDemucsOutput(w, update)
    \/ \E ok \in BOOLEAN : DemucsReturn(w, ok)
    \/ DemucsMarkFailed(w)
    \/ DemucsSendFailed(w)
    \/ DemucsMarkCompleted(w)
    \/ DemucsSendCompleted(w)

EngineStep ==
  \/ MainStep
  \/ SetupStep
  \/ DownloadStep
  \/ LateStep
  \/ DemucsStep

Next == EngineStep \/ RunReceive

NextEvents ==
  MainStep \/ DownloadStep \/ LateStep \/ DemucsStep \/ RunStep \/ SubStep

NextBus == PublishStep \/ RunStep \/ SubStep

NextSeparator == SeparatorStep \/ RunReceive

NextRestart == Next \/ MainExit \/ ProcessStart

\* the engine without SSE clients
Spec == Init /\ [][Next]_vars

\* the engine observed by an SSE client, the order of entry into the
\* producer channel recorded
SpecEvents == InitEvents /\ [][NextEvents]_vars

\* main() up to the start of the workers, from any store and disk
SpecBoot == InitBoot /\ [][MainStep]_vars

\* the engine started on a store with pending downloads
SpecSubmit == InitSubmit /\ [][Next]_vars

\* startup on a store with more unfinished tracks than queue slots
SpecFullQueue == InitFullQueue /\ [][MainStep]_vars

\* the reconciliation of the single-file server, from any store and disk
SpecServerBoot == InitBoot /\ [][ServerVerify]_vars

\* the engine with its goroutines scheduled: main, the workers and the run
\* goroutine step whenever they can, and the fetcher and separator
\* processes return; clients and late readers are under no obligation
SpecLive ==
  /\ InitLive
  /\ [][Next]_vars
  /\ WF_vars(MainStep)
  /\ WF_vars(DownloadStep)
  /\ WF_vars(DemucsStep)
  /\ WF_vars(RunReceive)

\* the engine over several process
\* lifetimes
SpecRestart == InitRestart /\ [][NextRestart]_vars

\* one resolution of a playlist against any catalog of up to MaxPages pages
SpecPlaylist == InitPlaylist /\ [][ResolveStep]_vars

\* one separation, with the broadcaster draining the events
SpecSeparator == InitSeparator /\ [][NextSeparator]_vars

\* goroutines calling ensureDockerContainer, at the same time and again
SpecDocker == InitToken /\ [][DockerStep]_vars

\* the broadcaster; the run goroutine is scheduled whenever it can step
SpecBus == InitBus /\ [][NextBus]_vars /\ WF_vars(RunStep)

\* the goroutines asking for an access token
SpecToken == InitToken /\ [][TokenStep]_vars

(* ---------------------------------------------------------------------- *)
(* Properties                                                              *)
(* ---------------------------------------------------------------------- *)
Terminal == {"completed", "failed"}

\* C1: every track whose demucs_status is in_progress or completed has
\* download_status = completed.
C1_SeparateImpliesFetched ==
  \A t \in Tracks :
    tracks[t].demucs_status \in {"in_progress", "completed"}
      => tracks[t].download_status = "completed"

\* C2: at most one job per (track, stage) is in flight: no two workers of a
\* stage hold a job for the same track.
C2_OneJobPerTrackStage ==
  /\ \A w1, w2 \in Workers :
       (w1 # w2 /\ dw[w1].pc # "idle" /\ dw[w2].pc # "idle")
         => dw[w1].job # dw[w2].job
  /\ \A w1, w2 \in DemucsWorkers :
       (w1 # w2 /\ mw[w1].pc # "idle" /\ mw[w2].pc # "idle")
         => mw[w1].job # mw[w2].job

\* C3: a track row is inserted at most once, and once the engine is serving
\* a status that is completed or failed is not moved to another status by
\* the submission of a track that is already known.
C3_DuplicateKeepsStatus ==
  [][mainPc = "serving" =>
       \A t \in Tracks :
         /\ inserts'[t] <= 1
         /\ tracks[t].download_status \in Terminal
              => tracks'[t].download_status = tracks[t].download_status
         /\ tracks[t].demucs_status \in Terminal
              => tracks'[t].demucs_status = tracks[t].demucs_status]_vars

Rank(status) ==
  IF status = "pending" THEN 0
  ELSE IF status \in Terminal THEN 2 ELSE 1

\* C4: for every SSE client and every (track, stage) the statuses received
\* follow pending, active..., terminal: nothing is received after a terminal
\* event and no pending event is received after another event.
C4_LifecycleOrder ==
  \A c \in Subs :
    \A i, j \in 1..Len(sub[c].recv) :
      (/\ i < j
       /\ sub[c].recv[i].track = sub[c].recv[j].track
       /\ sub[c].recv[i].type = sub[c].recv[j].type)
        => /\ Rank(sub[c].recv[i].status) # 2
           /\ Rank(sub[c].recv[j].status) # 0

\* C5: when all callers found the credential absent or expired, asked at the
\* same time and were all answered with a token, the credential endpoint
\* was called exactly once and they all hold the same token.
C5_SingleFlight ==
  (/\ now = 0
   /\ \A c \in Callers :
        tk[c].pc = "done" /\ tk[c].stale /\ tk[c].ret # TokenErr)
    => /\ upstreamCalls = 1
       /\ \A c1, c2 \in Callers : tk[c1].ret = tk[c2].ret

\* events whose broadcast the run goroutine has finished
Handled ==
  Len(busLog) - Len(events) - (IF run.pc = "broadcast" THEN 1 ELSE 0)

\* C6: whatever the SSE clients do (one may never read), the run goroutine
\* finishes the broadcast of every published event, and a client that is
\* waiting in its receive when the event is offered to it receives it.
C6_SlowSubscriberIsolated ==
  /\ \A n \in 1..MaxPublish : (Len(busLog) >= n) ~> (Handled >= n)
  /\ [][\A c \in Subs :
          (/\ run.pc = "broadcast"
           /\ c \in run.todo
           /\ sub[c].st = "waiting"
           /\ (run'.pc = "select" \/ c \notin run'.todo))
            => sub'[c].recv = Append(sub[c].recv, run.ev)]_vars

\* a client is stuck on its first event while another one has received two
C6_Witness ==
  \E c1, c2 \in Subs :
    /\ c1 # c2
    /\ sub[c1].st = "writing"
    /\ Len(sub[c1].recv) = 1
    /\ Len(sub[c2].recv) = 2
    /\ sub[c2].recv[2] # sub[c1].recv[1]

\* C7: once reconciliation has run, every track with download_status =
\* completed has an artifact that exists and is not empty.
C7_CompletedHasArtifact ==
  mainPc # "verify" =>
    \A t \in Tracks :
      (tracks[t].known /\ tracks[t].download_status = "completed")
        => disk[t] = "full"

\* an event of the Demucs stage for track t enters the bus in this step
DemucsEventEnters(t) ==
  /\ Len(events') = Len(events) + 1
  /\ events'[Len(events')].track = t
  /\ events'[Len(events')].type = "demucs"

\* a Demucs job for track t is put on the Demucs queue in this step
DemucsJobEnqueued(t) == demucsQueue' = Append(demucsQueue, t)

FetchCompletedPublished(t) == <<t, "download", "completed">> \in published

\* r is a subsequence of log: its elements are elements of log at strictly
\* increasing positions
IsSubsequence(r, log) ==
  \E f \in [1..Len(r) -> 1..Len(log)] :
    /\ \A i \in 1..Len(r) : log[f[i]] = r[i]
    /\ \A i, j \in 1..Len(r) : i < j => f[i] < f[j]

\* the i-th event of log is the fetch completed event of track t
FetchCompletedAt(log, i, t) ==
  /\ log[i].track = t
  /\ log[i].type = "download"
  /\ log[i].status = "completed"

\* the j-th event of log is an event of the Demucs stage of track t
SeparateAt(log, j, t) == log[j].track = t /\ log[j].type = "demucs"

\* in log every Demucs event of track t has a fetch completed event of t
\* before it
FetchCompletedPrecedes(log, t) ==
  \A j \in 1..Len(log) :
    SeparateAt(log, j, t) => \E i \in 1..(j - 1) : FetchCompletedAt(log, i, t)

\* in log no fetch completed event of track t comes after a Demucs event
\* of t
NoFetchCompletedAfterSeparate(log, t) ==
  \A i, j \in 1..Len(log) :
    (i < j /\ SeparateAt(log, i, t)) => ~FetchCompletedAt(log, j, t)

\* C8 (as claimed): for each track the fetch completed event has entered the
\* bus before the track's Demucs job is enqueued and before any event of its
\* Demucs stage enters the bus, so that in the order of entry into the bus
\* and in what every SSE client has received the fetch completed event of a
\* track precedes every event of its Demucs stage.
C8_FetchCompletedFirst ==
  /\ [][\A t \in Tracks :
          (DemucsJobEnqueued(t) \/ DemucsEventEnters(t))
            => FetchCompletedPublished(t)]_vars
  /\ [](\A t \in Tracks : FetchCompletedPrecedes(busLog, t))
  /\ [](\A c \in Subs : \A t \in Tracks :
          NoFetchCompletedAfterSeparate(sub[c].recv, t))

\* C8 (amended): a download worker enqueues the Demucs job of a track only
\* after its fetch completed event has entered the bus; for every track
\* that the startup resync did not put on the Demucs queue a fetch completed
\* event has entered the bus before any event of its Demucs stage does, so
\* that in the order of entry every Demucs event of the track has a fetch
\* completed event before it; what an SSE client has received is a
\* subsequence of that order; and for such a track, fetched once, no client
\* receives the fetch completed event after an event of its Demucs stage.
C8_FetchCompletedFirstUnlessResynced ==
  /\ [][\A t \in Tracks :
          /\ (DemucsJobEnqueued(t) /\ mainPc = "serving")
               => FetchCompletedPublished(t)
          /\ (DemucsEventEnters(t) /\ t \notin resynced)
               => FetchCompletedPublished(t)]_vars
  /\ [](\A t \in Tracks \ resynced : FetchCompletedPrecedes(busLog, t))
  /\ [](\A c \in Subs : IsSubsequence(sub[c].recv, busLog))
  /\ [](\A c \in Subs : \A t \in Tracks \ resynced :
          Cardinality({i \in 1..Len(busLog) :
                         FetchCompletedAt(busLog, i, t)}) <= 1
            => NoFetchCompletedAfterSeparate(sub[c].recv, t))

\* an SSE client has received the fetch completed event of a track that a
\* download worker put on the Demucs queue, and after it an event of the
\* track's Demucs stage
C8_Witness ==
  \E c \in Subs, t \in Tracks \ resynced :
    \E i, j \in 1..Len(sub[c].recv) :
      /\ i < j
      /\ FetchCompletedAt(sub[c].recv, i, t)
      /\ SeparateAt(sub[c].recv, j, t)

\* C9: no download worker runs the fetcher for a track that it found failed.
C9_FailedNotRetried ==
  \A w \in Workers : dw[w].pc = "download" => dw[w].found # "failed"

\* C10: a download worker that dequeued a job for a track whose
\* download_status was completed goes no further: it neither writes a status
\* nor runs the fetcher nor enqueues a Demucs job.
C10_CompletedShortCircuits ==
  \A w \in Workers :
    dw[w].found = "completed" => dw[w].pc \in {"pending", "mark"}

Count(t, queue) == Cardinality({i \in 1..Len(queue) : queue[i] = t})

\* main() leaves the reconciliation call in this step
VerifyReturns == mainPc = "verify" /\ mainPc' # "verify"

\* C11: at startup every track whose base.mp3 exists and is not empty and
\* whose download_status is not completed is set to completed by the
\* reconciliation, and no download job for such a track is on the download
\* queue after the resync.
C11_PresentFileMarkedCompleted ==
  /\ [][VerifyReturns =>
          \A t \in Tracks :
            (/\ tracks[t].known
             /\ disk[t] = "full"
             /\ tracks[t].download_status # "completed")
              => tracks'[t].download_status = "completed"]_vars
  /\ [](\A t \in Tracks :
          (tracks[t].known /\ disk[t] = "full")
            => Count(t, downloadQueue) = 0)

\* C12: at startup a track with download_status = in_progress and no file is
\* reset to pending by the reconciliation, and the resync that follows puts
\* at most one download job for it on the download queue.
C12_InterruptedFetchReset ==
  /\ [][VerifyReturns =>
          \A t \in Tracks :
            (/\ tracks[t].known
             /\ disk[t] = "absent"
             /\ tracks[t].download_status = "in_progress")
              => tracks'[t].download_status = "pending"]_vars
  /\ [](\A t \in Tracks :
          /\ Count(t, downloadQueue) <= 1
          /\ (/\ mainPc # "verify"
              /\ tracks[t].known
              /\ disk[t] = "absent")
               => tracks[t].download_status # "in_progress")

\* C20: when main() has finished the resync, every track whose download is
\* completed and whose Demucs stage was left in_progress by the prior
\* process is on the Demucs queue.
C20_InterruptedSeparationRequeued ==
  mainPc = "serving" =>
    \A t \in Tracks :
      (/\ tracks[t].known
       /\ tracks[t].download_status = "completed"
       /\ tracks[t].demucs_status = "in_progress")
        => Count(t, demucsQueue) >= 1

StageConsistent(status, error) ==
  IF status = "failed" THEN error # "" ELSE error = ""

\* C13: for each stage of each stored track, status = failed implies a
\* non-empty stored error and any other status implies no stored error.
C13_ErrorMatchesStatus ==
  \A t \in Tracks :
    tracks[t].known =>
      /\ StageConsistent(tracks[t].download_status, tracks[t].error_message)
      /\ StageConsistent(tracks[t].demucs_status,
                         tracks[t].demucs_error_message)

\* download worker w moves from program point a to program point b
DownloadMoves(w, a, b) == dw[w].pc = a /\ dw'[w].pc = b

\* C14: a download worker whose fetcher returned an error writes
\* download_status = failed with the error message, then sends one failed
\* event carrying that error and takes the next job without enqueueing a
\* Demucs job; while serving, a Demucs job is enqueued only by a download
\* worker that is past the completed branch of a fetch that wrote the file.
C14_FailedFetchNotSeparated ==
  [][/\ \A w \in Workers :
          /\ (dw[w].pc = "failed_db" /\ dw'[w] # dw[w])
               => /\ dw'[w].pc = "failed_ev"
                  /\ tracks'[dw[w].job].download_status = "failed"
                  /\ tracks'[dw[w].job].error_message = "err"
                  /\ demucsQueue' = demucsQueue
          /\ (dw[w].pc = "failed_ev" /\ dw'[w] # dw[w])
               => /\ dw'[w].pc = "idle"
                  /\ events' = Append(events,
                         Event(dw[w].job, "download", "failed", 0, "err"))
                  /\ demucsQueue' = demucsQueue
          /\ (dw'[w].pc = "enqueue" /\ dw[w].pc # "enqueue")
               => dw[w].pc = "completed_ev"
          /\ (dw'[w].pc = "completed_ev" /\ dw[w].pc # "completed_ev")
               => dw[w].pc = "completed_db"
          /\ (dw'[w].pc = "completed_db" /\ dw[w].pc # "completed_db")
               => dw[w].pc = "download" /\ disk'[dw[w].job] = "full"
     /\ \A t \in Tracks :
          (mainPc = "serving" /\ demucsQueue' = Append(demucsQueue, t))
            => \E w \in Workers :
                 DownloadMoves(w, "enqueue", "idle") /\ dw[w].job = t]_vars

\* the pipeline has nothing more to do for track t
Finished(t) ==
  \/ tracks[t].download_status = "failed"
  \/ tracks[t].demucs_status \in Terminal

\* C15: a worker that hit a failure becomes idle again and takes the next
\* job, every track with a job on the download queue reaches a terminal
\* status whatever happens to the others, and while serving the engine
\* itself enqueues nothing again: a download job is enqueued only by a
\* submission and a Demucs job only by a download worker after its fetch.
C15_FailureDoesNotHalt ==
  /\ \A w \in Workers : (dw[w].pc = "failed_db") ~> (dw[w].pc = "idle")
  /\ \A w \in DemucsWorkers : (mw[w].pc = "failed_db") ~> (mw[w].pc = "idle")
  /\ \A t \in Tracks : (Count(t, downloadQueue) > 0) ~> Finished(t)
  /\ \A t \in Tracks :
       (Count(t, demucsQueue) > 0) ~> (tracks[t].demucs_status \in Terminal)
  /\ [][mainPc = "serving" =>
          \A t \in Tracks :
            /\ Count(t, downloadQueue') > Count(t, downloadQueue)
                 => \E h \in Requests :
                      /\ setup[h].pc = "enqueue"
                      /\ setup[h].todo # <<>>
                      /\ Head(setup[h].todo) = t
                      /\ setup'[h].todo = Tail(setup[h].todo)
            /\ Count(t, demucsQueue') > Count(t, demucsQueue)
                 => \E w \in Workers :
                      DownloadMoves(w, "enqueue", "idle") /\ dw[w].job = t]_vars

\* the tracks that have a job on a queue or in the hands of a worker
Jobs ==
  Range(downloadQueue) \cup Range(demucsQueue)
    \cup {dw[w].job : w \in {v \in Workers : dw[v].pc # "idle"}}
    \cup {mw[w].job : w \in {v \in DemucsWorkers : mw[v].pc # "idle"}}

\* C16: every track that has a download or Demucs job on a queue or in
\* flight has a row in the tracks table.
C16_RowBeforeJob == \A t \in Jobs : tracks[t].known

\* a track that had no row at startup was inserted by a submission and has
\* a job
C16_Witness ==
  \E t \in Jobs : inserts[t] = 1 /\ t \in Range(downloadQueue)

\* a setup request is answered in this step: at once when it is refused on
\* arrival, or by the handler goroutine that served it
SetupAnswered ==
  \/ submitsLeft' < submitsLeft /\ setup' = setup
  \/ /\ mainPc' = "serving"
     /\ \E h \in Requests : setup[h].pc # "idle" /\ setup'[h].pc = "idle"

\* C17: a setup request that is answered with "Database error" gets status
\* 500 and leaves no track row, no playlist_tracks row and no download job
\* behind: the answer is given at the step of the failed transaction, which
\* changes nothing, and a handler writes rows or enqueues a job only when
\* its transaction was committed, after which it answers 200.
C17_StoreFailureLeavesNothing ==
  [][/\ (SetupAnswered /\ lastStatus'.body = "Database error")
          => /\ lastStatus'.code = 500
             /\ \E h \in Requests : setup[h].pc = "save"
             /\ tracks' = tracks
             /\ playlist_tracks' = playlist_tracks
             /\ downloadQueue' = downloadQueue
     /\ (inserts' # inserts \/ playlist_tracks' # playlist_tracks)
          => \E h \in Requests :
               setup[h].pc = "save" /\ setup'[h].pc = "enqueue"
     /\ \A h \in Requests :
          (setup[h].pc # "enqueue" /\ setup'[h].pc = "enqueue")
            => setup[h].pc = "save"
     /\ \A h \in Requests :
          (setup[h].pc = "enqueue" /\ setup'[h].pc = "idle"
             /\ mainPc' = "serving")
            => lastStatus' = Response(200, "")
     /\ \A h \in Requests :
          (setup[h].pc \in {"token", "playlist", "save"}
             /\ setup'[h] # setup[h])
            => downloadQueue' = downloadQueue]_vars

\* a submission of tracks that have no row failed in the store
C17_Witness ==
  /\ lastStatus = Response(500, "Database error")
  /\ \A t \in Tracks : ~tracks[t].known
  /\ playlist_tracks = {}
  /\ downloadQueue = <<>>

\* C18: a setup request answered with "playlist_id is required" or "Invalid
\* request body" gets status 400 and changes nothing: it is answered on
\* arrival, with no request to the credential endpoint (which precedes the
\* catalog call), no row and no job; and no handler that goes on to the
\* credential endpoint serves a request without a playlist id.
C18_InvalidRequestTouchesNothing ==
  /\ [][(SetupAnswered /\ lastStatus'.body \in
           {"playlist_id is required", "Invalid request body"})
         => /\ lastStatus'.code = 400
            /\ submitsLeft' < submitsLeft
            /\ upstreamCalls' = upstreamCalls
            /\ tracks' = tracks
            /\ playlist_tracks' = playlist_tracks
            /\ downloadQueue' = downloadQueue
            /\ demucsQueue' = demucsQueue]_vars
  /\ [](\A h \in Requests :
          setup[h].pc # "idle" => setup[h].playlistID # "")

\* a request without playlist_id was refused by a server that knows playlists
C18_Witness ==
  /\ lastStatus = Response(400, "playlist_id is required")
  /\ catalog # {}
  /\ upstreamCalls = 0

\* C19: startDockerContainer is executed at most once, and exactly once as
\* soon as a call of ensureDockerContainer has returned; every call returns
\* the one memoized outcome; the outcome, a failure included, never changes
\* and is never attempted again.
C19_DockerInitOnce ==
  /\ [](/\ dockerRuns <= 1
        /\ (dockerRuns = 1) <=> (dockerInit # "notrun")
        /\ \A c \in Callers :
             inv[c].ret # ""
               => (dockerRuns = 1 /\ inv[c].ret = dockerInit))
  /\ [][(dockerInit \in {"ok", "err"})
          => (/\ dockerInit' = dockerInit
              /\ dockerRuns' = dockerRuns)]_vars

\* the container failed to start, one goroutine was answered with the error
\* twice and another one once
C19_Witness ==
  /\ dockerInit = "err"
  /\ \E c1, c2 \in Callers :
       /\ c1 # c2
       /\ inv[c1].calls = 2 /\ inv[c1].ret = "err"
       /\ inv[c2].calls = 1 /\ inv[c2].ret = "err"

\* a terminal event of the Demucs stage of track t has entered the bus
DemucsTerminalPublished(t) ==
  \E status \in Terminal : <<t, "demucs", status>> \in published

\* C21: with the workers scheduled and every child process returning, every
\* track with a job on the download queue reaches download_status completed
\* or failed; a download worker that finished a fetch puts the track on the
\* Demucs queue by itself; and every track whose fetch completed reaches
\* demucs_status completed or failed, its terminal Demucs event published.
C21_EveryStageTerminates ==
  /\ \A t \in Tracks :
       (Count(t, downloadQueue) > 0)
         ~> (tracks[t].download_status \in Terminal)
  /\ \A t \in Tracks :
       (<<t, "download", "completed">> \in published)
         ~> (tracks[t].demucs_status \in Terminal
               /\ DemucsTerminalPublished(t))
  /\ [][\A w \in Workers :
          /\ (dw[w].pc = "completed_ev" /\ dw'[w] # dw[w])
               => dw'[w].pc = "enqueue"
          /\ (dw[w].pc = "enqueue" /\ dw'[w] # dw[w])
               => demucsQueue' = Append(demucsQueue, dw[w].job)]_vars

\* C22: a download worker whose status write failed goes on as after a write
\* that succeeded, and at the next start of the process the reconciliation
\* sets every stored track whose base.mp3 exists to download_status =
\* completed and every track left in_progress without a file to pending.
C22_DriftCorrectedAtBoot ==
  /\ [][\A w \in Workers :
          (mainPc' = "serving" /\ dw[w].pc = "completed_db" /\ dw'[w] # dw[w])
            => dw'[w].pc = "completed_ev"]_vars
  /\ [](mainPc \in {"loadDownloads", "resyncDownloads", "sendDownload",
                   "resyncDemucs"}
         => \A t \in Tracks :
              tracks[t].known =>
                /\ checkFileExists(t)
                     => tracks[t].download_status = "completed"
                /\ ~checkFileExists(t)
                     => tracks[t].download_status # "in_progress")

\* C23: at the step in which the process exits no worker is in the middle
\* of a job and no job is left on a queue: every job that was taken was run
\* to its terminal status write and terminal event.
C23_ShutdownDrains ==
  [][(mainPc' = "exited" /\ mainPc = "serving")
       => /\ \A w \in Workers : dw[w].pc = "idle"
          /\ \A w \in DemucsWorkers : mw[w].pc = "idle"]_vars

RECURSIVE AllItems(_, _)
\* the items of the first n pages, in page order
AllItems(pgs, n) ==
  IF n = 0 THEN <<>> ELSE AllItems(pgs, n - 1) \o pgs[n].items

\* C24: when the resolution of a playlist has returned and every page of
\* the catalog could be fetched, it returned no error and the tracks of all
\* pages in page order, as many as the pages' item counts add up to and as
\* the reported total; when some page could not be fetched it returned an
\* error and no track.
C24_AllPagesResolved ==
  resolvePc = "done" =>
    IF \A i \in 1..Len(pages) : pages[i].ok
      THEN /\ resolveErr = ""
           /\ metadata.Tracks = AllItems(pages, Len(pages))
           /\ Len(metadata.Tracks) = ItemCount(pages, Len(pages))
           /\ metadata.TotalTracks = Len(metadata.Tracks)
      ELSE /\ resolveErr = "err"
           /\ metadata.Tracks = <<>>

\* a step in which processDemucsOutput parsed a percentage in 0..100 (it is
\* then lastProgress') and published the progress computed from it
ParsedUpdate ==
  /\ sepLines' = sepLines + 1
  /\ Len(events') = Len(events) + 1

\* C25: for each parsed percentage p with previous value lastProgress, the
\* pass counter currentModel is incremented exactly when p is at least 50
\* points below lastProgress (a drop of exactly 50 included), and is left
\* alone otherwise; lastProgress is then p.
C25_BoundaryAtDropOfFifty ==
  [][ParsedUpdate =>
       /\ (currentModel' = currentModel + 1)
            <=> (lastProgress - lastProgress' >= 50)
       /\ currentModel' \in {currentModel, currentModel + 1}
       /\ lastProgress' \in 0..100]_vars

Min(a, b) == IF a < b THEN a ELSE b

\* C26: every published separator progress is min(100, (currentModel * 100
\* + p) / numModels) for the percentage p just parsed, so it lies in 0..100
\* whatever the number of pass boundaries detected (in the units of
\* ProgressEvent: min(100 * numModels, currentModel * 100 + p), in
\* 0..100 * numModels).
C26_ProgressClamped ==
  [][ParsedUpdate =>
       LET ev == events'[Len(events')]
       IN /\ ev.type = "demucs" /\ ev.status = "processing"
          /\ ev.progress = Min(100 * numModels,
                               currentModel' * 100 + lastProgress')
          /\ ev.progress \in 0..(100 * numModels)
          /\ sepOut' = ev.progress]_vars

\* more than numModels - 1 pass boundaries were detected and the update
\* after them was published at the cap
C26_Witness ==
  /\ currentModel > numModels - 1
  /\ lastProgress > 0
  /\ sepOut = 100 * numModels
  /\ <<"T1", "demucs", "processing">> \in published

\* C27: while the separator's passes are regular (within a pass the
\* percentage does not decrease, a pass ends at 100 and the next starts at
\* 0, numModels passes in all) the published progress never decreases; when
\* the last pass is at 100 the published progress is 100; and the event the
\* worker publishes after the separator returned without error is completed
\* with progress 100, after which the worker publishes nothing for the
\* track.
C27_RegularRunMonotonic ==
  /\ [][(ParsedUpdate /\ sepRegular') => sepOut' >= sepOut]_vars
  /\ []((sepRegular /\ sepRestarts = numModels - 1 /\ lastProgress = 100)
          => sepOut = 100 * numModels)
  /\ [][\A w \in DemucsWorkers :
          (mw[w].pc = "completed_ev" /\ mw'[w] # mw[w])
            => /\ Len(events') = Len(events) + 1
               /\ events'[Len(events')] =
                    ProgressEvent(mw[w].job, "demucs", "completed",
                                  100 * numModels, "")
               /\ mw'[w].pc = "idle"]_vars
  /\ [](<<"T1", "demucs", "completed">> \in published
          => /\ \A w \in DemucsWorkers : mw[w].pc = "idle"
             /\ demucsQueue = <<>>)

\* a regular run of numModels passes was published up to 100 and the worker
\* published the completed event
C27_Witness ==
  /\ sepRegular
  /\ sepRestarts = numModels - 1
  /\ lastProgress = 100
  /\ sepOut = 100 * numModels
  /\ <<"T1", "demucs", "completed">> \in published

\* C28: what a subscriber has received is a subsequence of the events in
\* the order they entered the broadcaster's events channel: no two events
\* are delivered in the reverse of that order and none is delivered twice.
C28_SubscriberSeesBusOrder ==
  \A c \in Subs : IsSubsequence(sub[c].recv, busLog)

\* one subscriber has received the first event and another one has missed
\* it, while the next two events wait in the producer channel together
C28_Witness ==
  \E c1, c2 \in Subs :
    /\ c1 # c2
    /\ Len(busLog) = MaxPublish
    /\ Len(events) = MaxBuffered
    /\ sub[c1].recv = <<busLog[1]>>
    /\ c2 \in clients
    /\ sub[c2].recv = <<>>

\* the step appends ev to the events channel
Sends(ev) ==
  /\ Len(events') = Len(events) + 1
  /\ events'[Len(events')] = ev

\* worker record wk of a pool working on stage type: it takes a job only
\* when it is idle, reaches the sending of a terminal event only by the
\* write of that terminal status, and becomes idle again only by sending the
\* failed event or, after the completed event was sent, by the hand-over
\* that ends the iteration
OneJobAtATime(old, new, type) ==
  /\ (new.job # old.job /\ new.job # "") => old.pc = "idle"
  /\ (new.pc = "failed_ev" /\ old.pc # "failed_ev") => old.pc = "failed_db"
  /\ (new.pc = "completed_ev" /\ old.pc # "completed_ev")
       => old.pc = "completed_db"
  /\ (new.pc = "enqueue" /\ old.pc # "enqueue")
       => /\ old.pc = "completed_ev"
          /\ Sends(Event(old.job, type, "completed", 100, ""))
  /\ (new.pc = "idle" /\ old.pc # "idle")
       => \/ /\ old.pc = "failed_ev"
             /\ Sends(Event(old.job, type, "failed", 0, "err"))
          \/ /\ old.pc = "completed_ev"
             /\ type = "demucs"
             /\ Sends(Event(old.job, type, "completed", 100, ""))
          \/ /\ old.pc = "enqueue"
             /\ type = "download"

\* C29: the jobs being processed are those held by the workers, at most
\* one per worker of a pool (the download pool has numWorkers = 8 workers,
\* MaxWorkers of them are run; the Demucs pool has numDemucsWorkers = 1);
\* a worker has a child running only while it holds a job, and takes its
\* next job only after the terminal status of the previous one was written
\* and its terminal event sent.
C29_PoolsBounded ==
  /\ [](/\ Cardinality({w \in Workers : dw[w].pc # "idle"}) <= MaxWorkers
        /\ Cardinality({w \in DemucsWorkers : mw[w].pc # "idle"})
             <= numDemucsWorkers
        /\ \A w \in Workers : dw[w].pc = "download" => dw[w].job # ""
        /\ \A w \in DemucsWorkers : mw[w].pc = "process" => mw[w].job # "")
  /\ [][/\ \A w \in Workers : OneJobAtATime(dw[w], dw'[w], "download")
        /\ \A w \in DemucsWorkers : OneJobAtATime(mw[w], mw'[w], "demucs")
        /\ \A w \in Workers :
             (dw[w].pc = "failed_db" /\ dw'[w] # dw[w])
               => tracks'[dw[w].job].download_status = "failed"
        /\ \A w \in Workers :
             (dw[w].pc = "completed_db" /\ dw'[w] # dw[w])
               => tracks'[dw[w].job].download_status = "completed"
        /\ \A w \in DemucsWorkers :
             (mw[w].pc = "failed_db" /\ mw'[w] # mw[w])
               => tracks'[mw[w].job].demucs_status = "failed"
        /\ \A w \in DemucsWorkers :
             (mw[w].pc = "completed_db" /\ mw'[w] # mw[w])
               => tracks'[mw[w].job].demucs_status = "completed"]_vars

\* C30: a "processing" event of the separator enters the events channel
\* only while the Demucs worker that holds the track's job is inside
\* ProcessTrackWithDemucs, which returns only when the readers are done and
\* the child has exited: none is sent once the worker has gone on to its
\* terminal status and terminal event.
C30_ProcessingBeforeTerminal ==
  [][\A t \in Tracks :
       (/\ Len(events') = Len(events) + 1
        /\ events'[Len(events')].track = t
        /\ events'[Len(events')].type = "demucs"
        /\ events'[Len(events')].status = "processing")
         => \E w \in DemucsWorkers :
              /\ mw[w].job = t
              /\ mw[w].pc = "process"
              /\ mw'[w].pc = "process"]_vars

\* a separation published progress and then its terminal event
C30_Witness ==
  \E t \in Tracks :
    /\ <<t, "demucs", "processing">> \in published
    /\ \/ <<t, "demucs", "completed">> \in published
       \/ <<t, "demucs", "failed">> \in published
    /\ \A w \in DemucsWorkers : mw[w].pc = "idle"

\* C31: a "downloading" event of a fetch enters the events channel only
\* while a download worker that holds the track's job is inside
\* DownloadTrackFromSpotifyWithProgress: none is sent once the worker has
\* gone on to its terminal status and terminal event.
C31_DownloadingBeforeTerminal ==
  [][\A t \in Tracks :
       (/\ Len(events') = Len(events) + 1
        /\ events'[Len(events')].track = t
        /\ events'[Len(events')].type = "download"
        /\ events'[Len(events')].status = "downloading")
         => \E w \in Workers :
              /\ dw[w].job = t
              /\ dw[w].pc = "download"
              /\ dw'[w].pc = "download"]_vars

\* main() has run both resync loops and has not yet started the workers
ResyncFinished == mainPc = "resyncDemucs" /\ pendingList = <<>>

\* C32: when the startup resync has finished no track is on both queues,
\* every track with download_status = completed and demucs_status = pending
\* is on the Demucs queue exactly once, every track on the download queue
\* has download_status = pending, and the Demucs resync, which builds its
\* jobs from the stored rows, asks nothing of the catalog.
C32_ResyncQueuesDisjoint ==
  /\ [](ResyncFinished =>
          \A t \in Tracks :
            /\ ~(t \in Range(downloadQueue) /\ t \in Range(demucsQueue))
            /\ (/\ tracks[t].known
                /\ tracks[t].download_status = "completed"
                /\ tracks[t].demucs_status = "pending")
                 => Count(t, demucsQueue) = 1
            /\ t \in Range(downloadQueue)
                 => tracks[t].download_status = "pending")
  /\ [][(mainPc = "resyncDemucs") => upstreamCalls' = upstreamCalls]_vars

\* a download job for track t is put on the download queue in this step
DownloadJobEnqueued(t) == Count(t, downloadQueue') > Count(t, downloadQueue)

\* an iteration of the pending-download resync is a resolution followed,
\* when it succeeded, by the send of the track: a failed resolution drops
\* the track the loop is at and nothing else, and neither step writes the
\* store; once the loop is over main() enqueues no download job
ResyncLoop ==
  /\ [][(mainPc = "resyncDownloads" /\ pendingList # <<>>)
         => /\ tracks' = tracks
            /\ downloadQueue' = downloadQueue
            /\ \/ mainPc' = "sendDownload" /\ pendingList' = pendingList
               \/ mainPc' = mainPc /\ pendingList' = Tail(pendingList)]_vars
  /\ [][(mainPc = "sendDownload")
         => /\ tracks' = tracks
            /\ mainPc' = "resyncDownloads"
            /\ downloadQueue' = Append(downloadQueue, Head(pendingList))
            /\ pendingList' = Tail(pendingList)]_vars
  /\ [](mainPc = "sendDownload" => pendingList # <<>>)
  /\ [][(mainPc = "resyncDemucs") => downloadQueue' = downloadQueue]_vars

\* C33 (as claimed): a resolution failure skips only the track the loop is
\* at; startup can always go on to the Demucs resync and to the start of
\* the workers; and a skipped track keeps download_status = pending and is
\* put on the download queue by nothing for as long as the process lives.
C33_ResolutionFailureSkipsOne ==
  /\ ResyncLoop
  /\ [](mainPc # "serving" => ENABLED MainStep)
  /\ [](\A t \in skipped : tracks[t].download_status = "pending")
  /\ [][\A t \in skipped : ~DownloadJobEnqueued(t)]_vars

\* C33 (amended): a resolution failure skips only the track the loop is at
\* and never stops startup: after it main() can take its next step, the
\* next resolution or the query of the pending Demucs jobs; a skipped
\* track has download_status = pending for as long as main() has not
\* started the workers, and afterwards its row is written only by a worker
\* that holds a job of it; and a skipped track is put on the download queue
\* only by the handler of a submission whose playlist contains it.
C33_SkippedUntilSubmitted ==
  /\ ResyncLoop
  /\ [](mainPc = "resyncDownloads" => ENABLED MainStep)
  /\ [](\A t \in skipped :
          mainPc # "serving" => tracks[t].download_status = "pending")
  /\ [][\A t \in skipped :
          tracks'[t] # tracks[t]
            => \/ \E w \in Workers : dw[w].pc # "idle" /\ dw[w].job = t
               \/ \E w \in DemucsWorkers : mw[w].pc # "idle" /\ mw[w].job = t]_vars
  /\ [][\A t \in skipped :
          DownloadJobEnqueued(t)
            => /\ mainPc = "serving"
               /\ \E h \in Requests :
                    /\ setup[h].pc = "enqueue"
                    /\ setup[h].todo # <<>>
                    /\ Head(setup[h].todo) = t
                    /\ t \in Range(Playlists[setup[h].playlistID])
                    /\ setup'[h].todo = Tail(setup[h].todo)]_vars

\* the resync skipped the pending track, the workers were started, the
\* handler of a submission of the track has put it on the download queue
\* and answered, and a download worker that took the job has written
\* in_progress
C33_Witness ==
  /\ mainPc = "serving"
  /\ skipped = {"T1"}
  /\ tracks["T1"].download_status = "in_progress"
  /\ \E w \in Workers : dw[w].job = "T1" /\ dw[w].pc = "download"
  /\ lastStatus = Response(200, "")

\* caller c returns from getAccessToken in this step
TokenReturns(c) == tk[c].pc # "done" /\ tk'[c].pc = "done"

\* C34: the refresh deadline of the cached token is its issue time plus its
\* lifetime less SkewMinutes; a call that answers from the cache does so
\* before that deadline; and the tokens are cached in the order they are
\* issued, so that a call never returns a token older than the one cached
\* when it returns, hence none older than the one cached when it started.
C34_NoStaleToken ==
  [][/\ accessToken' >= accessToken
     /\ accessToken' # accessToken
          => \E expiresIn \in Lifetimes :
               tokenExpiry' = now + expiresIn - SkewMinutes
     /\ \A c \in Callers :
          TokenReturns(c) =>
            /\ (tk[c].pc # "fetch" /\ tk'[c].ret = accessToken)
                 => now < tokenExpiry
            /\ tk'[c].ret # TokenErr => tk'[c].ret >= accessToken']_vars

\* a caller was answered with the first token; after its deadline another
\* caller refreshed and was answered with the second one
C34_Witness ==
  \E c1, c2 \in Callers :
    /\ tk[c1].pc = "done" /\ tk[c1].ret = 1
    /\ tk[c2].pc = "done" /\ tk[c2].ret = 2
    /\ accessToken = 2
    /\ now >= 60 - SkewMinutes

\* C40: when the credential request of a refresh fails the caller returns
\* the error, the cached token and its expiry are left as they were and the
\* write lock is released; the lock is only ever held by a caller that is
\* between Lock and its return; and a caller that gets the lock while the
\* cache is still absent or expired goes on to its own credential request.
C40_FailedRefreshReleasesLock ==
  /\ [][\A c \in Callers :
          /\ (tk[c].pc = "fetch" /\ TokenReturns(c)
                 /\ tk'[c].ret = TokenErr)
               => /\ accessToken' = accessToken
                  /\ tokenExpiry' = tokenExpiry
                  /\ tokenMutex' = 0
                  /\ upstreamCalls' = upstreamCalls + 1
          /\ (tk[c].pc = "locked" /\ tk'[c] # tk[c] /\ ~Fresh)
               => /\ tk'[c].pc = "fetch"
                  /\ tokenMutex' = c]_vars
  /\ [](\A c \in Callers :
          tokenMutex = c => tk[c].pc \in {"locked", "fetch"})

\* the refresh of one caller failed and left the cache empty; the other
\* caller then made its own credential request and cached the first token
C40_Witness ==
  \E c1, c2 \in Callers :
    /\ tk[c1].pc = "done" /\ tk[c1].ret = TokenErr /\ tk[c1].stale
    /\ tk[c2].pc = "done" /\ tk[c2].ret = 1
    /\ accessToken = 1
    /\ upstreamCalls = 2
    /\ tokenMutex = 0

\* C35: a producer can send exactly when the events channel holds fewer
\* events than its capacity (as long as it has something to publish); a
\* full channel always gets a free slot again and a broadcast always ends,
\* whatever the clients do, since the run goroutine never waits for a
\* client.
C35_PublishCompletes ==
  /\ []((Len(busLog) < MaxPublish)
          => (ENABLED PublishStep <=> Len(events) < MaxBuffered))
  /\ (Len(events) = MaxBuffered) ~> (Len(events) < MaxBuffered)
  /\ (run.pc = "broadcast") ~> (run.pc = "select")

\* every event was published and taken off the channel while a client had
\* not come back from writing its first event
C35_Witness ==
  /\ Len(busLog) = MaxPublish
  /\ events = <<>>
  /\ run.pc = "select"
  /\ \E c \in Subs : sub[c].st = "writing" /\ Len(sub[c].recv) = 1

\* C36: b.clients is changed only by the run goroutine between two
\* broadcasts; a channel handed to UnregisterClient is deleted from
\* b.clients and closed in one step and is never touched again, so it is
\* closed once; a broadcast never offers an event to a closed channel and an
\* event is delivered only to a registered client that is receiving; and
\* UnregisterClient always returns, also when the client disconnects during
\* a broadcast.
C36_UnsubscribeSafe ==
  /\ [][clients' # clients => (run.pc = "select" /\ run' = run)]_vars
  /\ [][\A c \in Subs :
          /\ (sub[c].st # "closed" /\ sub'[c].st = "closed")
               => (sub[c].st = "closing" /\ c \notin clients')
          /\ sub[c].st = "closed" => sub'[c] = sub[c]
          /\ sub'[c].recv # sub[c].recv
               => (c \in clients /\ sub[c].st = "waiting")]_vars
  /\ [](\A c \in Subs :
          sub[c].st = "closed"
            => (c \notin clients /\ ~(run.pc = "broadcast" /\ c \in run.todo)))
  /\ \A c \in Subs : (sub[c].st = "closing") ~> (sub[c].st = "closed")

\* a client disconnects while the broadcast that has yet to reach it is in
\* progress, after another client was unregistered and its channel closed
C36_Witness ==
  /\ run.pc = "broadcast"
  /\ \E c1, c2 \in Subs :
       /\ c1 \in run.todo
       /\ sub[c1].st = "closing"
       /\ sub[c2].st = "closed"

\* C37: startup is never stuck: as long as main() has not started the
\* workers it can take its next step, whatever the number of unfinished
\* tracks in the store, also when they are more than a job queue has slots.
C37_StartupNeverStuck ==
  mainPc # "serving" => ENABLED MainStep

\* the columns of the download stage and those of the Demucs stage
DownloadColumns(row) == <<row.download_status, row.error_message>>
DemucsColumns(row) == <<row.demucs_status, row.demucs_error_message>>

\* C38: a step of a download worker and the reconciliation of main() leave
\* the Demucs columns of every row as they were, a step of a Demucs worker
\* leaves the download columns of every row as they were, and a step of a
\* worker leaves the rows of the tracks other than its job's as they were.
C38_StageColumnsFramed ==
  [][/\ \A w \in Workers :
          dw'[w] # dw[w] =>
            \A t \in Tracks :
              /\ DemucsColumns(tracks'[t]) = DemucsColumns(tracks[t])
              /\ tracks'[t].known = tracks[t].known
              /\ t # dw[w].job => tracks'[t] = tracks[t]
     /\ \A w \in DemucsWorkers :
          mw'[w] # mw[w] =>
            \A t \in Tracks :
              /\ DownloadColumns(tracks'[t]) = DownloadColumns(tracks[t])
              /\ tracks'[t].known = tracks[t].known
              /\ t # mw[w].job => tracks'[t] = tracks[t]
     /\ mainPc = "verify" =>
          \A t \in Tracks :
            /\ DemucsColumns(tracks'[t]) = DemucsColumns(tracks[t])
            /\ tracks'[t].known = tracks[t].known]_vars

\* both workers have written the terminal statuses of one track and a
\* download worker that of another track, whose Demucs stage is pending
C38_Witness ==
  \E t1, t2 \in Tracks :
    /\ t1 # t2
    /\ tracks[t1].download_status = "completed"
    /\ tracks[t1].demucs_status \in {"completed", "failed"}
    /\ tracks[t2].download_status \in {"completed", "failed"}
    /\ tracks[t2].demucs_status = "pending"
    /\ <<t1, "demucs", tracks[t1].demucs_status>> \in published
    /\ <<t2, "download", tracks[t2].download_status>> \in published

\* the step appends an event of the given track, stage and status
SendsStatus(t, type, status) ==
  /\ Len(events') = Len(events) + 1
  /\ events'[Len(events')].track = t
  /\ events'[Len(events')].type = type
  /\ events'[Len(events')].status = status

\* a job of the track waits on the queue
InQueue(q, t) == \E i \in 1..Len(q) : q[i] = t

\* C39: when a worker sends the completed or failed event of its job, and no
\* other job of the track is held by a worker or waits on the stage's queue,
\* the store shows that status for the track and stage; the pending event is
\* sent before the worker writes in_progress.
C39_SnapshotShowsTerminal ==
  [][/\ \A w \in Workers : \A st \in {"completed", "failed"} :
          (/\ dw'[w] # dw[w]
           /\ SendsStatus(dw[w].job, "download", st)
           /\ \A w2 \in Workers \ {w} : dw[w2].job # dw[w].job
           /\ ~InQueue(downloadQueue, dw[w].job))
            => tracks[dw[w].job].download_status = st
     /\ \A w \in DemucsWorkers : \A st \in {"completed", "failed"} :
          (/\ mw'[w] # mw[w]
           /\ SendsStatus(mw[w].job, "demucs", st)
           /\ \A w2 \in DemucsWorkers \ {w} : mw[w2].job # mw[w].job
           /\ ~InQueue(demucsQueue, mw[w].job))
            => tracks[mw[w].job].demucs_status = st
     /\ \A w \in Workers :
          (dw'[w] # dw[w] /\ SendsStatus(dw[w].job, "download", "pending"))
            => (dw[w].pc = "pending" /\ dw'[w].pc = "mark" /\ tracks' = tracks)
     /\ \A w \in Workers :
          (dw[w].pc = "mark" /\ dw'[w] # dw[w])
            => tracks'[dw[w].job].download_status = "in_progress"
     /\ \A w \in DemucsWorkers :
          (mw'[w] # mw[w] /\ SendsStatus(mw[w].job, "demucs", "pending"))
            => (mw[w].pc = "pending" /\ mw'[w].pc = "mark" /\ tracks' = tracks)
     /\ \A w \in DemucsWorkers :
          (mw[w].pc = "mark" /\ mw'[w] # mw[w])
            => tracks'[mw[w].job].demucs_status = "in_progress"]_vars

====
